---------------------------- MODULE Spec2Model ----------------------------
(***************************************************************************)
(* Layer tiles mapcanvas (lmotta/layertilesmapcanvas).                     *)
(*                                                                         *)
(* A state-machine model of src/layertilesmapcanvas.py:                    *)
(*   - TilesMapCanvas: the tile grid of the canvas extent (total, the      *)
(*     tile generator __call__, _getQuadKey);                              *)
(*   - TaskDownloadTiles: the download task (run, downloadImage,           *)
(*     finished);                                                          *)
(*   - LayerTilesMapCanvas: the four operations sharing one task slot      *)
(*     (updateFeatures, downloadTiles, getTotalImages, removeImages) and   *)
(*     their completion callbacks, and the format_url setter;             *)
(*   - LayerTilesMapCanvasWidget: the panel of a layer (its slots and the  *)
(*     persisted properties).                                              *)
(*                                                                         *)
(* Seven specifications share the definitions:                             *)
(*   SpecGrid      the tile grid functions, inputs drawn in InitGrid;      *)
(*   SpecUrl       the format_url setter applied to drawn templates;       *)
(*   SpecDownload  download jobs of one layer over a populated feature     *)
(*                 store and an arbitrary cache directory;                 *)
(*   Spec          the layer from construction, all four operations;       *)
(*   SpecFair      Spec, with the tasks' steps weakly fair;                *)
(*   SpecPanel     the panel of a layer driving the operations;            *)
(*   SpecZoom      populate and download jobs under zoom changes.          *)
(***************************************************************************)
EXTENDS Integers, Sequences, FiniteSets, TLC

VARIABLES
    (* ---- TilesMapCanvas, exercised by SpecGrid ---- *)
    extent,         \* ExtentTiles of the canvas at self._zoom (_getExtentTiles)
    selfZoom,       \* self._zoom, the zoom handed to total() and __call__()
    gen,            \* the generator object created by __call__
    yielded,        \* tiles the current iteration has yielded, in order
    previous,       \* tiles the previous complete iteration yielded
    iterations,     \* number of iterations run to exhaustion
    totalResult,    \* <<>> before total(zoom) was called, <<n>> after
    (* ---- LayerTilesMapCanvas and its tasks ---- *)
    currentTask,    \* self._currentTask: None or <<id>>
    tasks,          \* the task manager: id -> task, until its finished() ran
    nextId,         \* id of the next task created
    features,       \* the layer's feature store: Tile records in store order
    disk,           \* the tiles directory: valid and corrupt .tif, and .vrt
    lastFinish,     \* what the last completion callback did (observation)
    (* ---- the URL template of the layer ---- *)
    frm_url,        \* self._frm_url: None or <<template>>
    getUrl,         \* self.getUrl: None or <<[mode, value]>>, the lambda
    lastSet,        \* what the last call of the format_url setter did (observation)
    (* ---- LayerTilesMapCanvasWidget ---- *)
    registerLayers, \* the persisted properties of the layer: [url, dir]
    leUrl,          \* text of the URL line edit
    wgtDir,         \* text of the directory widget
    cbZoom,         \* zoom shown by the zoom combo box
    rbUpdate,       \* TRUE: radio Update checked, FALSE: radio Download checked
    rbDownload,     \* radio Download is enabled
    ckVrt,          \* check box "Create VRT image"
    btnOk,          \* text of the OK button
    btnRemoveFiles  \* text of the remove button

gridVars == <<extent, selfZoom, gen, yielded, previous, iterations, totalResult>>

layerVars == <<currentTask, tasks, nextId, features, disk, lastFinish>>

urlVars == <<frm_url, getUrl, lastSet>>

widgetVars == <<registerLayers, leUrl, wgtDir, cbZoom, rbUpdate, rbDownload,
                ckVrt, btnOk, btnRemoveFiles>>

panelVars == <<urlVars, widgetVars>>

vars == <<gridVars, layerVars, panelVars>>

-----------------------------------------------------------------------------
(* Bounds of the model *)

\* tile indices of the drawn extents range over 0..MaxCoord
MaxCoord == 2
\* zoom levels of the drawn extents range over 0..MaxZoom
MaxZoom == 3

\* number of tasks a run of the layer creates
MaxTasks == 2
\* feature records of the populated stores SpecDownload starts from
MaxTiles == 4
\* tiles of the canvas extent in Spec
MaxLayerTiles == 2
\* tokens (a letter or a placeholder) of the drawn URL templates
MaxTemplateLen == 2
MaxCpu == 2

\* a larger concrete grid besides the drawn ones: zoom 10, x in [512,513],
\* y in [341,342]
Scenario == [x1 |-> 512, y1 |-> 341, x2 |-> 513, y2 |-> 342]
ScenarioZoom == Len(<<1, 2, 3, 4, 5, 6, 7, 8, 9, 10>>)

-----------------------------------------------------------------------------
(* TilesMapCanvas *)

RECURSIVE Pow2(_)
Pow2(n) == IF n = 0 THEN 1 ELSE 2 * Pow2(n - 1)

\* (v & mask) != 0 for mask = 1 << s
BitAnd(v, s) == (v \div Pow2(s)) % 2 # 0

\* str( digit ) for a digit of 0..3
Str(digit) == <<"0", "1", "2", "3">>[digit + 1]

\* a mutant of _getQuadKey's loop body: the x and y bits swapped
QuadKeyDigitSwapped(i, xtile, ytile) ==
    LET mask  == i - 1
        dx    == IF BitAnd(ytile, mask) THEN 1 ELSE 0
        dy    == IF BitAnd(xtile, mask) THEN 2 ELSE 0
    IN  Str(0 + dx + dy)

\* one pass of the loop body of _getQuadKey for loop variable i:
\* mask = 1 << (i-1), digit = 0 (+1 if x has the bit) (+2 if y has the bit)
QuadKeyDigit(i, xtile, ytile) ==
    LET mask  == i - 1
        dx    == IF BitAnd(xtile, mask) THEN 1 ELSE 0
        dy    == IF BitAnd(ytile, mask) THEN 2 ELSE 0
    IN  Str(0 + dx + dy)

\* the loop of _getQuadKey: for i in range( zoom, 0, -1 ), quadKey += str(digit)
RECURSIVE QuadKeyLoop(_, _, _, _)
QuadKeyLoop(i, xtile, ytile, quadKey) ==
    IF i <= 0 THEN quadKey
    ELSE QuadKeyLoop(i - 1, xtile, ytile,
                     Append(quadKey, QuadKeyDigit(i, xtile, ytile)))

getQuadKey(zoom, xtile, ytile) == QuadKeyLoop(zoom, xtile, ytile, <<>>)

\* getRectTile: num2deg at the corners (x,y) and (x+1,y+1) of the tile, then
\* the fixed transform.  num2deg and the transform are kept symbolic: the
\* rectangle is named by the tile corners and the zoom they are computed from.
getRectTile(zoom, x, y) ==
    [xMin |-> <<x, zoom>>, yMax |-> <<y, zoom>>,
     xMax |-> <<x + 1, zoom>>, yMin |-> <<y + 1, zoom>>]

Tile(x, y, zoom) ==
    [x |-> x, y |-> y, z |-> zoom, q |-> getQuadKey(zoom, x, y),
     rect |-> getRectTile(zoom, x, y)]

\* a mutant of total: the inclusive upper ends counted as exclusive
totalExclusive(e) == (e.x2 - e.x1) * (e.y2 - e.y1)

total(e) == (e.x2 - e.x1 + 1) * (e.y2 - e.y1 + 1)

\* The generator of __call__: e is read when the body starts, (x, y) is the
\* position of the two nested range loops, the next tile to yield.
GenIdle == [pc |-> "idle", e |-> Scenario, x |-> 0, y |-> 0]

\* entering the two loops: range( e.x1, e.x2+1 ), range( e.y1, e.y2+1 )
GenEnter(e) ==
    IF e.x1 <= e.x2 /\ e.y1 <= e.y2
    THEN [pc |-> "loop", e |-> e, x |-> e.x1, y |-> e.y1]
    ELSE [pc |-> "exhausted", e |-> e, x |-> e.x1, y |-> e.y1]

\* a mutant of the loop entry: the walk resumes where the generator stands
GenEnterStale(g, e) ==
    IF g.pc = "idle" THEN GenEnter(e)
    ELSE [pc |-> IF g.x <= e.x2 THEN "loop" ELSE "exhausted",
          e |-> e, x |-> g.x, y |-> g.y]

\* __call__( zoom ) makes a new generator: its walk starts at the loop entry
GenBegin(g, e) == GenEnter(e)

\* a mutant of the loops: y is the outer loop
GenAdvanceRowFirst(g) ==
    IF g.x < g.e.x2 THEN [g EXCEPT !.x = g.x + 1]
    ELSE IF g.y < g.e.y2 THEN [g EXCEPT !.x = g.e.x1, !.y = g.y + 1]
    ELSE [g EXCEPT !.pc = "exhausted", !.x = g.e.x2 + 1]

\* after a yield: the inner loop over y steps, then the outer loop over x
GenAdvance(g) ==
    IF g.y < g.e.y2 THEN [g EXCEPT !.y = g.y + 1]
    ELSE IF g.x < g.e.x2 THEN [g EXCEPT !.x = g.x + 1, !.y = g.e.y1]
    ELSE [g EXCEPT !.pc = "exhausted", !.x = g.e.x2 + 1]

-----------------------------------------------------------------------------
(* SpecGrid: the grid functions applied to drawn extents *)

Coords == 0 .. MaxCoord

Extents ==
    { [x1 |-> a, y1 |-> b, x2 |-> c, y2 |-> d] :
        a \in Coords, b \in Coords, c \in Coords, d \in Coords }

ValidExtents == { e \in Extents : e.x1 <= e.x2 /\ e.y1 <= e.y2 }

InitGrid ==
    /\ \/ extent \in ValidExtents /\ selfZoom \in 0 .. MaxZoom
       \/ extent = Scenario /\ selfZoom = ScenarioZoom
    /\ gen = GenIdle
    /\ yielded = <<>>
    /\ previous = <<>>
    /\ iterations = 0
    /\ totalResult = <<>>
    /\ currentTask = <<>>
    /\ tasks = [i \in {} |-> <<>>]
    /\ nextId = 1
    /\ features = <<>>
    /\ disk = [valid |-> {}, corrupt |-> {}, vrt |-> {}]
    /\ lastFinish = <<>>
    /\ frm_url = <<>>
    /\ getUrl = <<>>
    /\ lastSet = <<>>
    /\ registerLayers = [url |-> <<>>, dir |-> <<>>]
    /\ leUrl = <<>>
    /\ wgtDir = ""
    /\ cbZoom = selfZoom
    /\ rbUpdate = TRUE
    /\ rbDownload = FALSE
    /\ ckVrt = FALSE
    /\ btnOk = "OK"
    /\ btnRemoveFiles = [label |-> "Remove images", total |-> <<0>>]

\* TilesMapCanvas.total( zoom )
CallTotal ==
    /\ totalResult = <<>>
    /\ totalResult' = <<total(extent)>>
    /\ UNCHANGED <<extent, selfZoom, gen, yielded, previous, iterations>>
    /\ UNCHANGED <<layerVars, panelVars>>

\* TilesMapCanvas.__call__( zoom ): a walk starts (again after an exhausted one)
CallIterate ==
    /\ gen.pc \in {"idle", "exhausted"}
    /\ iterations < 2
    /\ gen' = GenBegin(gen, extent)
    /\ previous' = yielded
    /\ yielded' = <<>>
    /\ iterations' = IF gen'.pc = "exhausted" THEN iterations + 1 ELSE iterations
    /\ UNCHANGED <<extent, selfZoom, totalResult>>
    /\ UNCHANGED <<layerVars, panelVars>>

\* next() on the generator: one tile is yielded
GenNext ==
    /\ gen.pc = "loop"
    /\ yielded' = Append(yielded, Tile(gen.x, gen.y, selfZoom))
    /\ gen' = GenAdvance(gen)
    /\ iterations' = IF gen'.pc = "exhausted" THEN iterations + 1 ELSE iterations
    /\ UNCHANGED <<extent, selfZoom, previous, totalResult>>
    /\ UNCHANGED <<layerVars, panelVars>>

NextGrid == CallTotal \/ CallIterate \/ GenNext

SpecGrid == InitGrid /\ [][NextGrid]_vars

-----------------------------------------------------------------------------
(* Properties of the tile grid, checked under SpecGrid *)

XY(seq) == [i \in 1 .. Len(seq) |-> <<seq[i].x, seq[i].y>>]

\* the i-th tile of the walk of e when x is the slower index
OrderXSlow(e, i) ==
    LET h == e.y2 - e.y1 + 1
    IN  <<e.x1 + ((i - 1) \div h), e.y1 + ((i - 1) % h)>>

IsPrefixOfWalk(seq, e) ==
    /\ Len(seq) <= (e.x2 - e.x1 + 1) * (e.y2 - e.y1 + 1)
    /\ \A i \in 1 .. Len(seq) : XY(seq)[i] = OrderXSlow(e, i)

\* C7: the iteration yields the tiles of the extent with x as the outer
\* (slower) loop from x1 to x2 and y as the inner loop from y1 to y2, each
\* (x,y) of the inclusive range exactly once; for x in [512,513], y in
\* [341,342] at zoom 10 the order is (512,341),(512,342),(513,341),(513,342).
C7_IterationOrder ==
    gen.pc # "idle" =>
        /\ IsPrefixOfWalk(yielded, gen.e)
        /\ gen.pc = "exhausted" =>
              /\ \A x \in gen.e.x1 .. gen.e.x2 : \A y \in gen.e.y1 .. gen.e.y2 :
                    Cardinality({ i \in 1 .. Len(yielded) :
                                    XY(yielded)[i] = <<x, y>> }) = 1
              /\ \A i \in 1 .. Len(yielded) :
                    /\ yielded[i].x \in gen.e.x1 .. gen.e.x2
                    /\ yielded[i].y \in gen.e.y1 .. gen.e.y2
              /\ (gen.e = Scenario /\ selfZoom = ScenarioZoom) =>
                    /\ Len(yielded) = 4
                    /\ XY(yielded)[1] = <<512, 341>>
                    /\ XY(yielded)[2] = <<512, 342>>
                    /\ XY(yielded)[3] = <<513, 341>>
                    /\ XY(yielded)[4] = <<513, 342>>

C7_Witness ==
    /\ gen.pc = "exhausted"
    /\ gen.e = Scenario
    /\ Len(yielded) = 4

\* C8: for a fixed extent and zoom two successive iterations yield the same
\* tiles (x, y, z, quadkey, rect) in the same order, each walk starting
\* again from (x1,y1).
C8_IterationRestartable ==
    /\ (gen.pc = "loop" /\ yielded = <<>>) =>
          (gen.x = extent.x1 /\ gen.y = extent.y1)
    /\ (iterations >= 1 /\ gen.pc = "loop") =>
          /\ Len(yielded) <= Len(previous)
          /\ \A i \in 1 .. Len(yielded) : yielded[i] = previous[i]
    /\ iterations = 2 => yielded = previous

C8_Witness ==
    /\ iterations = 2
    /\ Len(yielded) >= 4
    /\ yielded = previous

\* C9: total(zoom) is (x2-x1+1)*(y2-y1+1), the number of (x,y) pairs of the
\* extent's tile range, and equals the number of tiles a complete iteration
\* yields for the same extent and zoom; for a single-tile extent it is 1.
C9_TotalCountsTiles ==
    totalResult # <<>> =>
        /\ totalResult[1] =
              Cardinality((extent.x1 .. extent.x2) \X (extent.y1 .. extent.y2))
        /\ gen.pc = "exhausted" => totalResult[1] = Len(yielded)
        /\ (extent.x1 = extent.x2 /\ extent.y1 = extent.y2) => totalResult[1] = 1

C9_Witness ==
    /\ totalResult # <<>>
    /\ gen.pc = "exhausted"
    /\ Len(yielded) = 6
    /\ totalResult[1] = 6

\* bit s of v, by the exponent operator of Integers
RefBit(v, s) == (v \div (2 ^ s)) % 2

\* C10: the quadkey of every yielded tile is a string of exactly zoom
\* characters over {0,1,2,3} whose k-th character, most significant first,
\* is bit(zoom-k) of x plus twice bit(zoom-k) of y; empty for zoom 0.
C10_QuadKeyReference ==
    \A i \in 1 .. Len(yielded) :
        LET t == yielded[i]
        IN  /\ Len(t.q) = t.z
            /\ t.z = 0 => t.q = <<>>
            /\ \A k \in 1 .. t.z :
                  /\ t.q[k] \in {"0", "1", "2", "3"}
                  /\ t.q[k] = Str(RefBit(t.x, t.z - k) + 2 * RefBit(t.y, t.z - k))

C10_Witness ==
    \E i \in 1 .. Len(yielded) :
        /\ yielded[i].z = ScenarioZoom
        /\ yielded[i].x = 513
        /\ yielded[i].y = 341
        /\ yielded[i].q = <<"1", "2", "0", "2", "0", "2", "0", "2", "0", "3">>

-----------------------------------------------------------------------------
(* The URL template of the layer (format_url) *)

\* Python's None, and a value that is not None
None == <<>>
Some(v) == <<v>>

\* Strings are sequences of one-character strings.
\* the two templates of the classification scenario
TemplateXYZ ==
    <<"h", "t", "t", "p", ":", "/", "/", "h", "o", "s", "t", "/", "{", "z", "}", "/", "{", "x", "}", "/", "{", "y", "}", ".", "p", "n", "g">>

TemplateQuadKey ==
    <<"h", "t", "t", "p", ":", "/", "/", "h", "o", "s", "t", "/", "t", "i", "l", "e", "s", "/", "{", "q", "}", ".", "j", "p", "e", "g">>

\* a quadkey template on a host whose name has an x
TemplateQuadKeyStray ==
    <<"h", "t", "t", "p", ":", "/", "/", "e", "x", "a", "m", "p", "l", "e", "/", "{", "q", "}">>

\* str( n ) of a non-negative integer
Digits == <<"0", "1", "2", "3", "4", "5", "6", "7", "8", "9">>

RECURSIVE StrInt(_)
StrInt(n) ==
    IF n < Len(Digits) THEN <<Digits[n + 1]>>
    ELSE Append(StrInt(n \div Len(Digits)), Digits[(n % Len(Digits)) + 1])

\* value.find( c ): the 0-based index of the first c in value, -1 without one
RECURSIVE FindFrom(_, _, _)
FindFrom(value, c, i) ==
    IF i > Len(value) THEN -1
    ELSE IF value[i] = c THEN i - 1
    ELSE FindFrom(value, c, i + 1)

find(value, c) == FindFrom(value, c, 1)

\* the position of the first "}" at or after i, 0 without one
RECURSIVE CloseFrom(_, _)
CloseFrom(value, i) ==
    IF i > Len(value) THEN 0
    ELSE IF value[i] = "}" THEN i
    ELSE CloseFrom(value, i + 1)

\* value.format( **kw ): "{{" and "}}" are the escaped braces, "{name}" is
\* replaced by kw[name]; a name kw lacks raises KeyError, "{}" raises
\* IndexError (there is no positional argument), a brace without its partner
\* raises ValueError.
RECURSIVE FormatFrom(_, _, _, _)
FormatFrom(value, kw, i, out) ==
    IF i > Len(value) THEN [ok |-> TRUE, s |-> out]
    ELSE IF value[i] = "{"
    THEN IF i < Len(value) /\ value[i + 1] = "{"
         THEN FormatFrom(value, kw, i + 2, Append(out, "{"))
         ELSE LET j    == CloseFrom(value, i + 1)
                  name == SubSeq(value, i + 1, j - 1)
              IN  IF j = 0 \/ find(name, "{") >= 0
                  THEN [ok |-> FALSE, error |-> "ValueError"]
                  ELSE IF name = <<>>
                  THEN [ok |-> FALSE, error |-> "IndexError"]
                  ELSE IF Len(name) = 1 /\ name[1] \in DOMAIN kw
                  THEN FormatFrom(value, kw, j + 1, out \o kw[name[1]])
                  ELSE [ok |-> FALSE, error |-> "KeyError"]
    ELSE IF value[i] = "}"
    THEN IF i < Len(value) /\ value[i + 1] = "}"
         THEN FormatFrom(value, kw, i + 2, Append(out, "}"))
         ELSE [ok |-> FALSE, error |-> "ValueError"]
    ELSE FormatFrom(value, kw, i + 1, Append(out, value[i]))

format(value, kw) == FormatFrom(value, kw, 1, <<>>)

\* the keyword arguments of the two lambdas of the setter
KwQuadKey(info) == [n \in {"q"} |-> info.q]

KwXYZ(info) == [n \in {"z", "x", "y"} |-> StrInt(info[n])]

\* totalZXY = value.find('z') + value.find('x') + value.find('y')
totalZXY(value) == find(value, "z") + find(value, "x") + find(value, "y")

\* the lambda the setter stores in self.getUrl for value
NewGetUrl(value) ==
    Some([mode |-> IF totalZXY(value) < 0 THEN "QUADKEY" ELSE "XYZ",
          value |-> value])

\* self.getUrl( info ); calling None raises TypeError
callGetUrl(g, info) ==
    IF g = None THEN [ok |-> FALSE, error |-> "TypeError"]
    ELSE IF g[1].mode = "QUADKEY" THEN format(g[1].value, KwQuadKey(info))
    ELSE format(g[1].value, KwXYZ(info))

\* the zoom of the probe tile: getTileCenter(3)
ProbeZoom == 3

\* TilesMapCanvas.getTileCenter( zoom ) for a canvas centred in tile (xtile, ytile)
getTileCenter(zoom, xtile, ytile) ==
    [x |-> xtile, y |-> ytile, z |-> zoom, q |-> getQuadKey(zoom, xtile, ytile),
     rect |-> None]

\* getResponseValue: rv.value is not None
hasValue(response) == response \in {"image", "notimage"}

\* a mutant of the first statement of the setter: the old template is kept
frmUrlKept(old) == old

\* `self._frm_url = None`, the first statement of the setter
frmUrlAtEntry(old) == None

\* what a call of the setter leaves in (frm_url, getUrl) and what it did:
\* url is the probe URL when it was built, probes the number of requests
\* issued, response what the network gave for the probe (see Responses),
\* raised the exception that left the setter.
SetterOutcome(value, xtile, ytile, response) ==
    LET entry == frmUrlAtEntry(frm_url)
        g     == NewGetUrl(value)
        u     == callGetUrl(g, getTileCenter(ProbeZoom, xtile, ytile))
        did(url, probes, raised) ==
            [value |-> value, mode |-> IF value = <<>> THEN None ELSE Some(g[1].mode),
             url |-> url, probes |-> probes,
             response |-> IF probes = 0 THEN None ELSE Some(response),
             raised |-> raised]
    IN  IF value = <<>>
        THEN [frm |-> entry, get |-> getUrl, did |-> did(None, 0, None)]
        ELSE IF ~u.ok
        THEN [frm |-> entry, get |-> g, did |-> did(None, 0, Some(u.error))]
        ELSE IF response = "readerror"
        THEN [frm |-> entry, get |-> g, did |-> did(Some(u.s), 1, Some("readerror"))]
        ELSE IF ~hasValue(response)
        THEN [frm |-> entry, get |-> g, did |-> did(Some(u.s), 1, Some("Exception"))]
        ELSE [frm |-> Some(value), get |-> g, did |-> did(Some(u.s), 1, None)]

\* LayerTilesMapCanvas.format_url = value
format_url(value, xtile, ytile, response) ==
    LET o == SetterOutcome(value, xtile, ytile, response)
    IN  /\ frm_url' = o.frm
        /\ getUrl' = o.get
        /\ lastSet' = Some(o.did)

-----------------------------------------------------------------------------
(* SpecUrl: the setter applied to drawn templates *)

\* a template is a sequence of tokens: letters and placeholders
Tokens ==
    { <<"a">>, <<"x">>,
      <<"{", "x", "}">>, <<"{", "y", "}">>, <<"{", "z", "}">>, <<"{", "q", "}">> }

RECURSIVE Flatten(_)
Flatten(ts) == IF ts = <<>> THEN <<>> ELSE ts[1] \o Flatten(Tail(ts))

DrawnTemplates ==
    { Flatten(ts) : ts \in UNION { [1 .. n -> Tokens] : n \in 1 .. MaxTemplateLen } }

NamedTemplates == {<<>>, TemplateXYZ, TemplateQuadKey, TemplateQuadKeyStray}

Templates == NamedTemplates \cup DrawnTemplates

\* the panel of a layer without persisted properties
\* (LayerTilesMapCanvasWidget.__init__ with no URL and no directory)
WidgetUnset ==
    /\ registerLayers = [url |-> None, dir |-> None]
    /\ leUrl = <<>>
    /\ wgtDir = ""
    /\ cbZoom = selfZoom
    /\ rbUpdate = TRUE
    /\ rbDownload = FALSE
    /\ ckVrt = FALSE
    /\ btnOk = "OK"
    /\ btnRemoveFiles = [label |-> "Remove images", total |-> Some(0)]

\* the panel of a layer whose persisted URL is value, without directory
WidgetWithUrl(value) ==
    /\ registerLayers = [url |-> Some(value), dir |-> None]
    /\ leUrl = value
    /\ wgtDir = ""
    /\ cbZoom = selfZoom
    /\ rbUpdate = TRUE
    /\ rbDownload = FALSE
    /\ ckVrt = FALSE
    /\ btnOk = "OK"
    /\ btnRemoveFiles = [label |-> "Remove images", total |-> Some(0)]

UrlUnset ==
    /\ frm_url = None
    /\ getUrl = None
    /\ lastSet = None

\* a layer whose URL template was set to value with success
UrlConfigured(value) ==
    /\ frm_url = Some(value)
    /\ getUrl = NewGetUrl(value)
    /\ lastSet = None

LayerUnused ==
    /\ currentTask = None
    /\ tasks = [i \in {} |-> None]
    /\ nextId = 1
    /\ features = <<>>
    /\ disk = [valid |-> {}, corrupt |-> {}, vrt |-> {}]
    /\ lastFinish = None

\* LayerTilesMapCanvas.__init__: self._frm_url, self.getUrl = None, None
InitUrl ==
    /\ extent \in { e \in ValidExtents : e.x1 = 0 /\ e.y1 = 0 /\ e.x2 = e.y2 }
    /\ selfZoom = ProbeZoom
    /\ gen = GenIdle
    /\ yielded = <<>>
    /\ previous = <<>>
    /\ iterations = 0
    /\ totalResult = <<>>
    /\ LayerUnused
    /\ UrlUnset
    /\ WidgetUnset

\* the tile of the canvas centre at the probe zoom
CenterX == (extent.x1 + extent.x2) \div 2

CenterY == (extent.y1 + extent.y2) \div 2

\* the first set of a layer draws any template, the later ones a named one
SetUrl ==
    /\ \E value \in IF lastSet = None THEN Templates ELSE NamedTemplates :
         \E response \in {"urlerror", "readerror", "notimage", "image"} :
            format_url(value, CenterX, CenterY, response)
    /\ UNCHANGED <<gridVars, layerVars, widgetVars>>

NextUrl == SetUrl

SpecUrl == InitUrl /\ [][NextUrl]_vars

-----------------------------------------------------------------------------
(* Properties of the URL template *)

\* value contains the placeholder {n}
ContainsPlaceholder(value, n) ==
    \E i \in 1 .. Len(value) - 2 :
        value[i] = "{" /\ value[i + 1] = n /\ value[i + 2] = "}"

\* the URL of a tile with every placeholder substituted
Resolved(value, info) ==
    format(value, [n \in {"z", "x", "y", "q"} |->
                      IF n = "q" THEN info.q ELSE StrInt(info[n])])

ProbeTile == getTileCenter(ProbeZoom, CenterX, CenterY)

\* C11: a template containing the placeholders {z}, {x} and {y} is resolved
\* in XYZ mode (x, y, z substituted) and a template containing only {q} is
\* resolved in QUADKEY mode (q substituted with the tile's quadkey).
C11_TemplateClassification ==
    (lastSet # None /\ lastSet[1].value # <<>>) =>
        LET d   == lastSet[1]
            has(n) == ContainsPlaceholder(d.value, n)
        IN  /\ (has("z") /\ has("x") /\ has("y") /\ ~has("q")) =>
                  /\ d.mode = Some("XYZ")
                  /\ d.url = Some(Resolved(d.value, ProbeTile).s)
            /\ (has("q") /\ ~has("z") /\ ~has("x") /\ ~has("y")) =>
                  /\ d.mode = Some("QUADKEY")
                  /\ d.url = Some(Resolved(d.value, ProbeTile).s)

\* C12: a set whose probe request fails raises to the caller and leaves
\* format_url None; a set of the empty template leaves it None without a
\* probe and without raising; format_url is a template only after a set of
\* that template that did not raise.
C12_FailedSetLeavesUnset ==
    lastSet # None =>
        LET d == lastSet[1]
        IN  /\ (d.probes = 1 /\ ~hasValue(d.response[1])) =>
                  /\ d.raised # None
                  /\ frm_url = None
            /\ d.raised # None => frm_url = None
            /\ d.value = <<>> =>
                  /\ frm_url = None
                  /\ d.probes = 0
                  /\ d.raised = None
            /\ frm_url # None =>
                  /\ frm_url = Some(d.value)
                  /\ d.raised = None
                  /\ d.probes = 1

C12_Witness ==
    /\ lastSet # None
    /\ lastSet[1].value = TemplateQuadKey
    /\ lastSet[1].probes = 1
    /\ lastSet[1].response = Some("urlerror")
    /\ lastSet[1].raised = Some("Exception")
    /\ getUrl = NewGetUrl(TemplateQuadKey)
    /\ frm_url = None

\* the letter c occurs in the template
Found(value, c) == \E i \in 1 .. Len(value) : value[i] = c

\* C21: for every template QUADKEY mode (only q substituted) is chosen only
\* when none of x, y, z is found in the template; whenever at least one of
\* them is found, XYZ mode (x, y, z substituted) is chosen.
C21_QuadKeyOnlyWithoutXYZ ==
    (lastSet # None /\ lastSet[1].value # <<>>) =>
        LET d     == lastSet[1]
            found == Found(d.value, "x") \/ Found(d.value, "y")
                        \/ Found(d.value, "z")
        IN  /\ d.mode = Some("QUADKEY") => ~found
            /\ found => d.mode = Some("XYZ")

\* the two templates of the scenario are classified as stated
ScenarioClassified ==
    (lastSet # None /\ lastSet[1].value \in {TemplateXYZ, TemplateQuadKey}) =>
        /\ lastSet[1].mode =
             Some(IF lastSet[1].value = TemplateXYZ THEN "XYZ" ELSE "QUADKEY")
        /\ lastSet[1].url = Some(Resolved(lastSet[1].value, ProbeTile).s)

-----------------------------------------------------------------------------
(* Tasks of the host's task manager (QgsTask) *)

NoTasks == [i \in {} |-> None]

\* A task object.  status is the QgsTask status: "queued" after addTask,
\* "running" inside run(), "complete" after run() returned True, "terminated"
\* after run() returned False or after cancel() of a queued task; the task
\* leaves the manager when its finished() has been called.
\*   TaskDownloadTiles.__init__ : totalFeats, countFeats, countDownload,
\*                                hasVrt, filepathImagesVrt
\*   QgsTask.fromFunction       : returned_values, exception
\*   run() of each kind         : pc and the locals of the loop
\* results, fetches, images, present (the local files found when run()
\* started), atCancel, observed and canceledBy record what happened to the
\* task; no code reads them.
\* count / total * 100, the value given to QgsTask.setProgress, kept as the
\* fraction (count * 100) / total
Percent(count, totalCount) == [num |-> count * 100, den |-> totalCount]

\* a task as created by a request; QgsTask.progress() starts at 0
NewTask(kind, hasVrt, totalFeatures, zoom) ==
    [kind |-> kind, status |-> "queued", shouldTerminate |-> FALSE,
     hasVrt |-> hasVrt, totalFeats |-> totalFeatures, zoom |-> zoom,
     countFeats |-> None, countDownload |-> None, filepathImagesVrt |-> <<>>,
     returned_values |-> None, exception |-> None,
     pc |-> "start", cursor |-> 0,
     gen |-> GenIdle, totalTiles |-> None, c_tiles |-> 0, files |-> {},
     results |-> <<>>, fetches |-> 0, images |-> <<>>, present |-> {},
     atCancel |-> None, observed |-> None, canceledBy |-> None,
     progress |-> Percent(0, 1)]

\* a mutant of the test of the flag: it is never seen set
isCanceledNever(t) == FALSE

\* QgsTask.isCanceled()
isCanceled(t) == t.shouldTerminate

\* a mutant of cancel: it ends a running task at once, like a queued one
cancelInterrupts(t, by, landed) ==
    [t EXCEPT !.shouldTerminate = IF t.status \in {"queued", "running"}
                                  THEN TRUE ELSE t.shouldTerminate \/ landed,
              !.status = IF t.status \in {"queued", "running"}
                         THEN "terminated" ELSE t.status,
              !.pc = IF t.status = "running" THEN "done" ELSE t.pc,
              !.atCancel = IF t.atCancel = None
                           THEN Some([done |-> Len(t.results), status |-> t.status,
                                      inFlight |-> t.status = "running"
                                                      /\ t.pc = "fetch"])
                           ELSE t.atCancel,
              !.canceledBy = IF t.canceledBy = None THEN Some(by) ELSE t.canceledBy]

\* QgsTask.cancel(), called by the request `by`: the flag is set; a task
\* still queued is terminated at once and its run() never starts.  On a task
\* whose run() has ended the call sets the flag only when it lands before the
\* task manager has recorded the end (landed); afterwards it does nothing.
cancel(t, by, landed) ==
    [t EXCEPT !.shouldTerminate = IF t.status \in {"queued", "running"}
                                  THEN TRUE ELSE t.shouldTerminate \/ landed,
              !.status = IF t.status = "queued" THEN "terminated" ELSE t.status,
              !.atCancel = IF t.atCancel = None
                           THEN Some([done |-> Len(t.results), status |-> t.status,
                                      inFlight |-> t.status = "running"
                                                      /\ t.pc = "fetch"])
                           ELSE t.atCancel,
              !.canceledBy = IF t.canceledBy = None THEN Some(by) ELSE t.canceledBy]

Alive == DOMAIN tasks

AddTask(id, t) == [i \in Alive \cup {id} |-> IF i = id THEN t ELSE tasks[i]]

DropTask(id) == [i \in Alive \ {id} |-> tasks[i]]

SetTask(id, t) == [i \in Alive |-> IF i = id THEN t ELSE tasks[i]]

-----------------------------------------------------------------------------
(* LayerTilesMapCanvas: the four requests *)

\* a mutant of the guard of the requests: the task slot is never seen taken
hasCurrentTaskNever(ct) == FALSE

\* `if self._currentTask:` at the head of the four requests
hasCurrentTask(ct) == ct # None

\* `self._currentTask.cancel(); return`
CancelCurrent(by) ==
    /\ hasCurrentTask(currentTask)
    /\ currentTask[1] \in Alive
    /\ \E landed \in BOOLEAN :
          tasks' = SetTask(currentTask[1], cancel(tasks[currentTask[1]], by, landed))
    /\ UNCHANGED <<currentTask, nextId, features, disk, lastFinish>>

\* self._currentTask = <new task>; self.taskManager.addTask( self._currentTask )
Submit(t) ==
    /\ nextId <= MaxTasks
    /\ currentTask' = Some(nextId)
    /\ tasks' = AddTask(nextId, t)
    /\ nextId' = nextId + 1
    /\ lastFinish' = None

\* a mutant of updateFeatures: the store is not truncated
callUpdateFeaturesKeeps ==
    \/ CancelCurrent("update")
    \/ /\ ~hasCurrentTask(currentTask)
       /\ Submit(NewTask("update", FALSE, None, None))
       /\ UNCHANGED <<features, disk>>

\* a mutant of the read of the first record: an empty store gives a record
hasFirstFeatureAlways(feats) == TRUE

\* `next( self._layer.getFeatures() )` gives a record; on an empty store it
\* raises StopIteration
hasFirstFeature(feats) == feats # <<>>

\* The bodies of the four requests: what a call does to the layer.
callUpdateFeatures ==
    \/ CancelCurrent("update")
    \/ /\ ~hasCurrentTask(currentTask)
       /\ features' = <<>>
       /\ Submit(NewTask("update", FALSE, None, None))
       /\ UNCHANGED disk

callDownloadTiles(hasVrt) ==
    \/ CancelCurrent("download")
    \/ /\ ~hasCurrentTask(currentTask)
       /\ hasFirstFeature(features)
       /\ Submit(NewTask("download", hasVrt, Some(Len(features)),
                        IF features = <<>> THEN None ELSE Some(features[1].z)))
       /\ UNCHANGED <<features, disk>>

callGetTotalImages ==
    \/ CancelCurrent("count_images")
    \/ /\ ~hasCurrentTask(currentTask)
       /\ Submit(NewTask("count_images", FALSE, None, None))
       /\ UNCHANGED <<features, disk>>

callRemoveImages ==
    \/ CancelCurrent("remove_images")
    \/ /\ ~hasCurrentTask(currentTask)
       /\ Submit(NewTask("remove_images", FALSE, None, None))
       /\ UNCHANGED <<features, disk>>

\* LayerTilesMapCanvas.updateFeatures
updateFeatures ==
    /\ callUpdateFeatures
    /\ UNCHANGED <<gridVars, panelVars>>

\* LayerTilesMapCanvas.downloadTiles( name, dirPath, hasVrt ): reading the
\* zoom of the first feature raises StopIteration on an empty store, and the
\* request ends there.
downloadTiles(hasVrt) ==
    /\ callDownloadTiles(hasVrt)
    /\ UNCHANGED <<gridVars, panelVars>>

\* LayerTilesMapCanvas.getTotalImages( dirPath )
getTotalImages ==
    /\ callGetTotalImages
    /\ UNCHANGED <<gridVars, panelVars>>

\* LayerTilesMapCanvas.removeImages( dirPath )
removeImages ==
    /\ callRemoveImages
    /\ UNCHANGED <<gridVars, panelVars>>

-----------------------------------------------------------------------------
(* The tasks' run(), on the task manager's thread *)

\* the local file of a feature: f"{name}_{z}_{x}_{y}.tif" in dirPath
FileKey(feat) == <<feat.z, feat.x, feat.y>>

Keys(feats) == { FileKey(feats[i]) : i \in 1 .. Len(feats) }

TifFiles == disk.valid \cup disk.corrupt

\* os.listdir( dirPath )
ListDir ==
    { <<"tif", k>> : k \in TifFiles } \cup { <<"vrt", <<z>>>> : z \in disk.vrt }

\* a mutant of the removal: only the files that open as images are removed
RemoveFileValid(d, f) ==
    IF f[1] = "tif" THEN [d EXCEPT !.valid = @ \ {f[2]}] ELSE d

\* os.remove( f )
RemoveFile(d, f) ==
    IF f[1] = "tif"
    THEN [d EXCEPT !.valid = @ \ {f[2]}, !.corrupt = @ \ {f[2]}]
    ELSE [d EXCEPT !.vrt = @ \ {f[2][1]}]

\* QgsTask.start(): run() is entered, unless the task left the queue by
\* cancel().  The first statements of each run() are part of the step.
TaskStart(id) ==
    /\ id \in Alive
    /\ tasks[id].status = "queued"
    /\ LET t == tasks[id]
           started ==
             CASE t.kind = "download" ->
                    [t EXCEPT !.status = "running", !.pc = "next",
                              !.countFeats = Some(0), !.countDownload = Some(0),
                              !.filepathImagesVrt = <<>>,
                              !.present = Keys(features) \cap TifFiles]
               [] t.kind = "update" ->
                    [t EXCEPT !.status = "running", !.pc = "loop",
                              !.totalTiles = Some(total(extent)),
                              !.c_tiles = 0, !.zoom = Some(selfZoom),
                              !.gen = GenBegin(GenIdle, extent)]
               [] OTHER ->
                    [t EXCEPT !.status = "running", !.pc = "listdir"]
       IN  tasks' = SetTask(id, started)
    /\ UNCHANGED <<currentTask, nextId, features, disk, lastFinish>>
    /\ UNCHANGED <<gridVars, panelVars>>

\* downloadImage.progressDownload
progressDownload(t) ==
    [t EXCEPT !.countFeats = Some(t.countFeats[1] + 1),
              !.progress = Percent(t.countFeats[1] + 1, t.totalFeats[1])]

\* a mutant of the loop of run(): the next request is begun without waiting
\* for the one in progress to return
DownloadNextEager(id) ==
    /\ id \in Alive
    /\ tasks[id].kind = "download"
    /\ tasks[id].status = "running"
    /\ tasks[id].pc \in {"next", "fetch"}
    /\ LET t == tasks[id]
       IN  IF t.cursor < Len(features)
           THEN tasks' = SetTask(id, [progressDownload(t) EXCEPT
                                    !.cursor = t.cursor + 1, !.pc = "fetch"])
           ELSE tasks' = SetTask(id, [t EXCEPT !.pc = "fetch"])
    /\ UNCHANGED <<currentTask, nextId, features, disk, lastFinish>>
    /\ UNCHANGED <<gridVars, panelVars>>

\* TaskDownloadTiles.run: `for info in self.iterInfoFeatures` takes the next
\* feature (getInfoFeatures builds its URL with self.getUrl; when that raises,
\* run() ends with the exception) and downloadImage( info ) begins with
\* progressDownload(); at the end of the features run() returns True.
DownloadNext(id) ==
    /\ id \in Alive
    /\ tasks[id].kind = "download"
    /\ tasks[id].status = "running"
    /\ tasks[id].pc = "next"
    /\ LET t == tasks[id]
       IN  IF t.cursor < Len(features)
           THEN IF callGetUrl(getUrl, features[t.cursor + 1]).ok
                THEN tasks' = SetTask(id, [progressDownload(t) EXCEPT
                                         !.cursor = t.cursor + 1, !.pc = "fetch"])
                ELSE tasks' = SetTask(id, [t EXCEPT
                         !.exception = Some(callGetUrl(getUrl, features[t.cursor + 1]).error),
                         !.status = "terminated", !.pc = "done"])
           ELSE tasks' = SetTask(id, [t EXCEPT !.status = "complete", !.pc = "done"])
    /\ UNCHANGED <<currentTask, nextId, features, disk, lastFinish>>
    /\ UNCHANGED <<gridVars, panelVars>>

\* a mutant of the result handling: a failed tile is listed for the mosaic
ReportFailedListed(t, key) ==
    IF t.hasVrt
    THEN [t EXCEPT !.filepathImagesVrt = Append(@, key),
                   !.images = Append(@, [kind |-> "message", key |-> key])]
    ELSE [t EXCEPT !.images = Append(@, [kind |-> "message", key |-> key])]

\* self.image.emit( { 'name', 'message' } ); return
ReportFailed(t, key) ==
    [t EXCEPT !.images = Append(@, [kind |-> "message", key |-> key])]

\* a mutant of the result handling: the file is also emitted in mosaic mode
ReportFileEmitted(t, key) ==
    IF t.hasVrt
    THEN [t EXCEPT !.filepathImagesVrt = Append(@, key),
                   !.images = Append(@, [kind |-> "tile", key |-> key])]
    ELSE [t EXCEPT !.images = Append(@, [kind |-> "tile", key |-> key])]

\* if self.hasVrt: self.filepathImagesVrt.append( filepath )
\* else: self.image.emit( { 'name', 'filepath' } )
ReportFile(t, key) ==
    IF t.hasVrt
    THEN [t EXCEPT !.filepathImagesVrt = Append(@, key)]
    ELSE [t EXCEPT !.images = Append(@, [kind |-> "tile", key |-> key])]

\* a mutant of the cache test: the local file is never found
isfileNever(d, key) == FALSE

\* os.path.isfile( filepath )
isfile(d, key) == key \in d.valid \cup d.corrupt

\* what the network gives for a request:
\*   "urlerror"  urlopen raises ValueError, HTTPError or URLError (caught)
\*   "readerror" response.read() raises (it is outside the try)
\*   "notimage"  bytes that gdal.Open cannot open
\*   "image"     bytes of an image
Responses == {"urlerror", "readerror", "notimage", "image"}

\* a mutant of the writing: the bytes received are written to the local file
\* before they are opened
CreateCopyUnopened(d, key, response) ==
    IF response \in {"image", "notimage"}
    THEN [d EXCEPT !.valid = @ \cup {key}] ELSE d

\* self.driveTif.CreateCopy( filepath, r['ds'] ): reached only with bytes that
\* opened as an image; every earlier return leaves the directory as it was
CreateCopy(d, key, response) ==
    IF response = "image" THEN [d EXCEPT !.valid = @ \cup {key}] ELSE d

\* The rest of downloadImage( info ) for the request taken by DownloadNext.
downloadImage(id, response) ==
    /\ id \in Alive
    /\ tasks[id].kind = "download"
    /\ tasks[id].status = "running"
    /\ tasks[id].pc = "fetch"
    /\ LET t    == tasks[id]
           key  == FileKey(features[t.cursor])
           res(tag)  == [key |-> key, result |-> tag]
           cached    == [ReportFile(t, key) EXCEPT
                           !.results = Append(@, res("Cached")), !.pc = "check"]
           unreadable == [ReportFailed(t, key) EXCEPT
                           !.results = Append(@, res("Failed")), !.pc = "check"]
           failed    == [ReportFailed(t, key) EXCEPT
                           !.results = Append(@, res("Failed")),
                           !.fetches = @ + 1, !.pc = "check"]
           raised    == [t EXCEPT
                           !.results = Append(@, res("Raised")),
                           !.fetches = @ + 1,
                           !.status = "terminated", !.pc = "done"]
           fetched   == [ReportFile([t EXCEPT !.countDownload = Some(@[1] + 1)], key)
                         EXCEPT !.results = Append(@, res("Fetched")),
                                !.fetches = @ + 1, !.pc = "check"]
       IN  IF isfile(disk, key)
           THEN /\ response = "image"
                /\ tasks' = SetTask(id, IF key \in disk.corrupt
                                        THEN unreadable ELSE cached)
                /\ UNCHANGED disk
           ELSE /\ tasks' = SetTask(id, CASE response = "image" -> fetched
                                           [] response = "readerror" -> raised
                                           [] OTHER -> failed)
                /\ disk' = CreateCopy(disk, key, response)
    /\ UNCHANGED <<currentTask, nextId, features, lastFinish>>
    /\ UNCHANGED <<gridVars, panelVars>>

\* a mutant of the check after a request: the flag is not looked at
sawCancelNever(t) == FALSE

\* `if self.isCanceled():` after downloadImage( info )
sawCancel(t) == isCanceled(t)

\* TaskDownloadTiles.run: `if self.isCanceled(): return None`
DownloadCheck(id) ==
    /\ id \in Alive
    /\ tasks[id].kind = "download"
    /\ tasks[id].status = "running"
    /\ tasks[id].pc = "check"
    /\ LET t == tasks[id]
       IN  IF sawCancel(t)
           THEN tasks' = SetTask(id, [t EXCEPT
                    !.status = "terminated", !.pc = "done",
                    !.observed = Some([countFeats |-> t.countFeats[1],
                                       fetches |-> t.fetches])])
           ELSE tasks' = SetTask(id, [t EXCEPT !.pc = "next"])
    /\ UNCHANGED <<currentTask, nextId, features, disk, lastFinish>>
    /\ UNCHANGED <<gridVars, panelVars>>

\* the dict a task function returns
Result(canceled, n) == [canceled |-> canceled, total |-> n]

\* a mutant of the generator's zoom: every tile takes the zoom of the layer
\* at the time it is yielded
tileZoomCurrent(t, layerZoom) == layerZoom

\* the zoom of the tiles a populate job yields: the argument of
\* self._tilesCanvas( self._zoom ), bound when the generator is made
tileZoom(t, layerZoom) == t.zoom[1]

\* updateFeatures.run: one pass of `for tile in self._tilesCanvas( self._zoom )`
\* (the canceled test, addFeature, c_tiles += 1), or the return after the loop
UpdateStep(id) ==
    /\ id \in Alive
    /\ tasks[id].kind = "update"
    /\ tasks[id].status = "running"
    /\ LET t == tasks[id]
       IN  IF t.gen.pc = "loop"
           THEN IF isCanceled(t)
                THEN /\ tasks' = SetTask(id, [t EXCEPT
                            !.returned_values = Some(Result(TRUE, t.c_tiles)),
                            !.status = "complete", !.pc = "done"])
                     /\ UNCHANGED features
                ELSE /\ features' = Append(features,
                                           Tile(t.gen.x, t.gen.y,
                                                tileZoom(t, selfZoom)))
                     /\ tasks' = SetTask(id, [t EXCEPT
                            !.gen = GenAdvance(t.gen),
                            !.progress = Percent(t.c_tiles, t.totalTiles[1]),
                            !.c_tiles = t.c_tiles + 1])
           ELSE /\ tasks' = SetTask(id, [t EXCEPT
                            !.returned_values = Some(Result(FALSE, t.c_tiles)),
                            !.status = "complete", !.pc = "done"])
                /\ UNCHANGED features
    /\ UNCHANGED <<currentTask, nextId, disk, lastFinish>>
    /\ UNCHANGED <<gridVars, panelVars>>

\* getTotalImages.run: the files of os.listdir( dirPath ) ending with 'tif'
\* are counted; listed = FALSE when os.listdir raises (dirPath is gone or
\* unreadable by the time the task runs).
CountRun(id, listed) ==
    /\ id \in Alive
    /\ tasks[id].kind = "count_images"
    /\ tasks[id].status = "running"
    /\ LET t == tasks[id]
       IN  tasks' = SetTask(id,
             IF listed
             THEN [t EXCEPT !.returned_values =
                                Some(Result(FALSE, Cardinality(TifFiles))),
                            !.status = "complete", !.pc = "done"]
             ELSE [t EXCEPT !.exception = Some("OSError"),
                            !.status = "terminated", !.pc = "done"])
    /\ UNCHANGED <<currentTask, nextId, features, disk, lastFinish>>
    /\ UNCHANGED <<gridVars, panelVars>>

\* removeImages.run: files = os.listdir( dirPath ); an empty directory
\* returns at once; listed = FALSE when os.listdir raises.
RemoveList(id, listed) ==
    /\ id \in Alive
    /\ tasks[id].kind = "remove_images"
    /\ tasks[id].status = "running"
    /\ tasks[id].pc = "listdir"
    /\ LET t == tasks[id]
       IN  tasks' = SetTask(id,
             IF ~listed
             THEN [t EXCEPT !.exception = Some("OSError"),
                            !.status = "terminated", !.pc = "done"]
             ELSE IF ListDir = {}
             THEN [t EXCEPT !.returned_values = Some(Result(FALSE, 0)),
                            !.status = "complete", !.pc = "done"]
             ELSE [t EXCEPT !.files = ListDir, !.c_tiles = 0, !.pc = "loop"])
    /\ UNCHANGED <<currentTask, nextId, features, disk, lastFinish>>
    /\ UNCHANGED <<gridVars, panelVars>>

\* removeImages.run: one pass of `for f in files` (every listed file has one
\* of the extensions), or the return after the loop; removed = FALSE when
\* os.remove raises.
RemoveStep(id, removed) ==
    /\ id \in Alive
    /\ tasks[id].kind = "remove_images"
    /\ tasks[id].status = "running"
    /\ tasks[id].pc = "loop"
    /\ LET t == tasks[id]
       IN  IF t.files = {}
           THEN /\ removed
                /\ tasks' = SetTask(id, [t EXCEPT
                        !.returned_values = Some(Result(FALSE, t.c_tiles)),
                        !.status = "complete", !.pc = "done"])
                /\ UNCHANGED disk
           ELSE \E f \in t.files :
                  IF ~removed
                  THEN /\ tasks' = SetTask(id, [t EXCEPT
                              !.c_tiles = t.c_tiles + 1,
                              !.exception = Some("OSError"),
                              !.status = "terminated", !.pc = "done"])
                       /\ UNCHANGED disk
                  ELSE /\ disk' = RemoveFile(disk, f)
                       /\ tasks' = SetTask(id,
                            IF isCanceled(t)
                            THEN [t EXCEPT
                                    !.c_tiles = t.c_tiles + 1,
                                    !.files = t.files \ {f},
                                    !.returned_values =
                                        Some(Result(TRUE, t.c_tiles + 1)),
                                    !.status = "complete", !.pc = "done"]
                            ELSE [t EXCEPT
                                    !.c_tiles = t.c_tiles + 1,
                                    !.files = t.files \ {f}])
    /\ UNCHANGED <<currentTask, nextId, features, lastFinish>>
    /\ UNCHANGED <<gridVars, panelVars>>

-----------------------------------------------------------------------------
(* LayerTilesMapCanvasWidget: the panel of the layer *)

\* Directories are named by their path: TilesDir is the directory of `disk`,
\* MissingDir a path that is not a directory, "" the empty text.
TilesDir == "tiles"

MissingDir == "missing"

\* bool( dirPath ) and os.path.isdir( dirPath )
isValidDir(dirPath) == dirPath # "" /\ dirPath = TilesDir

\* self.titleRemoveFiles.format( total ): 'Remove images - {total}', total is
\* None or <<n>>; and the text 'CANCEL'
RemoveText(n) == [label |-> "Remove images", total |-> n]

CancelText == [label |-> "CANCEL", total |-> None]

\* on_finishProcess.getTotal( text ): the integer after the '-' of the text;
\* None stands for the ValueError of a text without '-' or without a number
getTotal(text) == IF text.label = "Remove images" THEN text.total ELSE None

\* on_finishProcess.updateProperties( name ), name is 'update' or 'download':
\* registerLayers and the layer's custom property get
\*   update   : KEYPROPERTY_URL <- self.ltmc.format_url
\*   download : KEYPROPERTY_DIR <- self.wgtDir.lineEdit().value()
updateProperties(name) ==
    IF name = "update" THEN [registerLayers EXCEPT !.url = frm_url]
    ELSE [registerLayers EXCEPT !.dir = Some(wgtDir)]

\* LayerTilesMapCanvasWidget.on_finishProcess( data ), the slot of finishProcess:
\* what it leaves in the widgets it writes.  For 'download' the total is added
\* to the number on the remove button; when that raises (no number on the
\* button, or total is None) the button keeps its text.
on_finishProcess(data) ==
    LET name == data.name
        shown == getTotal(btnRemoveFiles)
    IN  [btnOk |-> IF name \in {"download", "remove_images", "update"}
                   THEN "OK" ELSE btnOk,
         rbUpdate |-> IF name = "download" THEN TRUE ELSE rbUpdate,
         registerLayers |-> IF name \in {"update", "download"}
                            THEN updateProperties(name)
                            ELSE registerLayers,
         btnRemoveFiles |->
            CASE name = "update" -> btnRemoveFiles
              [] name = "count_images" -> RemoveText(data.total)
              [] name = "remove_images" -> RemoveText(Some(0))
              [] OTHER -> IF data.total = None \/ shown = None
                          THEN btnRemoveFiles
                          ELSE RemoveText(Some(data.total[1] + shown[1]))]

\* the slot runs for each dict emitted on finishProcess
Deliver(signal) ==
    IF signal = <<>>
    THEN UNCHANGED <<registerLayers, rbUpdate, btnOk, btnRemoveFiles>>
    ELSE LET w == on_finishProcess(signal[1])
         IN  /\ btnOk' = w.btnOk
             /\ rbUpdate' = w.rbUpdate
             /\ registerLayers' = w.registerLayers
             /\ btnRemoveFiles' = w.btnRemoveFiles

-----------------------------------------------------------------------------
(* The completion callbacks, on the main thread *)

\* The body the three callbacks finished( exception, result=None ) of
\* updateFeatures, getTotalImages and removeImages share after
\* `self._currentTask = None`:
\*     r = { 'name': name }
\*     if exception: r['error'] = f"Exception, {exception}"
\*     r.update( result )
\*     self.finishProcess.emit( r )
\* The value is the sequence of dicts emitted on finishProcess: r.update( None )
\* raises TypeError and the emit is not reached.
finishedFunction(name, exception, result) ==
    IF result = None
    THEN <<>>
    ELSE << [name |-> name, canceled |-> result[1].canceled,
             total |-> Some(result[1].total), error |-> exception] >>

\* downloadTiles.finished( result ), the slot of TaskDownloadTiles.finish
finishedDownload(result) ==
    << [name |-> "download", canceled |-> result.canceled,
        total |-> result.total, error |-> None] >>

\* QgsTask.fromFunction's task: finished( result ) hands the callback the
\* exception of the function, or 'Task canceled' when the task ended without
\* completing, and the returned values when there are any.
wrapperException(t) ==
    IF t.status = "terminated" /\ t.exception = None
    THEN Some("Task canceled")
    ELSE t.exception

\* a mutant of the order of the emits: the terminal dict goes first
finishedEmitsTerminalFirst(t, build, signal) ==
    [i \in 1 .. Len(signal) |-> [channel |-> "finish", kind |-> "terminal"]]
    \o [i \in 1 .. Len(t.images) |-> [channel |-> "image", kind |-> t.images[i].kind]]
    \o (IF build THEN <<[channel |-> "image", kind |-> "mosaic"]>> ELSE <<>>)

\* What a job has emitted, in order, when its completion callback returns:
\* the dicts of run() on the image channel, then in finished() the mosaic of
\* createVrt() on the image channel, then the terminal dict.
finishedEmits(t, build, signal) ==
    [i \in 1 .. Len(t.images) |-> [channel |-> "image", kind |-> t.images[i].kind]]
    \o (IF build THEN <<[channel |-> "image", kind |-> "mosaic"]>> ELSE <<>>)
    \o [i \in 1 .. Len(signal) |-> [channel |-> "finish", kind |-> "terminal"]]

\* a mutant of the callbacks: the dict is emitted with the slot still taken
slotAtEmitKept(ct) == ct

\* `self._currentTask = None`, the statement of the four callbacks that
\* precedes finishProcess.emit( r ): the slot as the slots of the signal see it
slotAtEmit(ct) == None

\* The task manager calls finished() of a task whose run() has ended, or that
\* was canceled in the queue.
\*   TaskDownloadTiles.finished: the mosaic is built from filepathImagesVrt
\*   when hasVrt and the list is not empty, then finish is emitted with
\*   { 'canceled': self.isCanceled(), 'total': self.countDownload }.
\* The callback clears the slot and emits finishProcess, whose slot
\* on_finishProcess of the panel runs within the emit.
TaskFinished(id) ==
    /\ id \in Alive
    /\ tasks[id].status \in {"complete", "terminated"}
    /\ LET t == tasks[id]
           build == t.kind = "download" /\ t.hasVrt /\ t.filepathImagesVrt # <<>>
           signal ==
             IF t.kind = "download"
             THEN finishedDownload(Result(isCanceled(t), t.countDownload))
             ELSE finishedFunction(t.kind, wrapperException(t), t.returned_values)
       IN  /\ disk' = IF build THEN [disk EXCEPT !.vrt = @ \cup {t.zoom[1]}]
                               ELSE disk
           /\ lastFinish' =
                Some([id |-> id, kind |-> t.kind,
                      task |-> IF build
                               THEN [t EXCEPT !.images =
                                       Append(@, [kind |-> "mosaic",
                                                  key |-> <<t.zoom[1]>>])]
                               ELSE t,
                      mosaic |-> IF build THEN Some(t.filepathImagesVrt) ELSE None,
                      emits |-> finishedEmits(t, build, signal),
                      slot |-> slotAtEmit(currentTask),
                      signal |-> signal])
           /\ Deliver(signal)
    /\ currentTask' = slotAtEmit(currentTask)
    /\ tasks' = DropTask(id)
    /\ UNCHANGED <<nextId, features>>
    /\ UNCHANGED <<gridVars, urlVars, leUrl, wgtDir, cbZoom, rbDownload, ckVrt>>

-----------------------------------------------------------------------------
(* Spec: the layer from its construction, all four operations *)

\* the features a complete walk of e at zoom leaves in the store
RECURSIVE WalkFrom(_, _)
WalkFrom(g, zoom) ==
    IF g.pc # "loop" THEN <<>>
    ELSE <<Tile(g.x, g.y, zoom)>> \o WalkFrom(GenAdvance(g), zoom)

Populated(e, zoom) == WalkFrom(GenEnter(e), zoom)

\* canvas extents of at most MaxLayerTiles tiles
LayerExtents ==
    { e \in ValidExtents : e.x1 = 0 /\ e.y1 = 0 /\ total(e) <= MaxLayerTiles }

GridUnused ==
    /\ gen = GenIdle
    /\ yielded = <<>>
    /\ previous = <<>>
    /\ iterations = 0
    /\ totalResult = <<>>

\* LayerTilesMapCanvas.__init__ and the panel of a layer with a persisted
\* URL and no directory: no task; the memory layer has no features; the tiles
\* directory is the user's and may hold files already
Init ==
    /\ extent \in LayerExtents
    /\ selfZoom = MaxZoom
    /\ GridUnused
    /\ currentTask = None
    /\ tasks = NoTasks
    /\ nextId = 1
    /\ features = <<>>
    /\ \E c \in SUBSET Keys(Populated(extent, selfZoom)) :
          disk = [valid |-> {}, corrupt |-> c, vrt |-> {}]
    /\ lastFinish = None
    /\ UrlConfigured(TemplateXYZ)
    /\ WidgetWithUrl(TemplateXYZ)

TaskIds == 1 .. MaxTasks

Next ==
    \/ updateFeatures
    \/ \E hasVrt \in BOOLEAN : downloadTiles(hasVrt)
    \/ getTotalImages
    \/ removeImages
    \/ \E id \in TaskIds : TaskStart(id)
    \/ \E id \in TaskIds : UpdateStep(id)
    \/ \E id \in TaskIds : DownloadNext(id)
    \/ \E id \in TaskIds : \E response \in Responses : downloadImage(id, response)
    \/ \E id \in TaskIds : DownloadCheck(id)
    \/ \E id \in TaskIds : \E listed \in BOOLEAN : CountRun(id, listed)
    \/ \E id \in TaskIds : \E listed \in BOOLEAN : RemoveList(id, listed)
    \/ \E id \in TaskIds : \E removed \in BOOLEAN : RemoveStep(id, removed)
    \/ \E id \in TaskIds : TaskFinished(id)

Spec == Init /\ [][Next]_vars

\* the steps the task manager and the tasks take by themselves
JobSteps ==
    \/ \E id \in TaskIds : TaskStart(id)
    \/ \E id \in TaskIds : UpdateStep(id)
    \/ \E id \in TaskIds : DownloadNext(id)
    \/ \E id \in TaskIds : \E response \in Responses : downloadImage(id, response)
    \/ \E id \in TaskIds : DownloadCheck(id)
    \/ \E id \in TaskIds : \E listed \in BOOLEAN : CountRun(id, listed)
    \/ \E id \in TaskIds : \E listed \in BOOLEAN : RemoveList(id, listed)
    \/ \E id \in TaskIds : \E removed \in BOOLEAN : RemoveStep(id, removed)
    \/ \E id \in TaskIds : TaskFinished(id)

\* Spec with the task manager running every task it was given, each call of
\* a task (a request to the server, a file operation) returning
SpecFair == Spec /\ WF_vars(JobSteps)

-----------------------------------------------------------------------------
(* SpecDownload: download jobs over a populated store and any directory *)

\* one column of n tiles
Column(n) == [x1 |-> 0, y1 |-> 0, x2 |-> 0, y2 |-> n - 1]

\* the directory holds any of the tiles' files, at most one of them unreadable
InitDownload ==
    /\ \E n \in 1 .. MaxTiles : extent = Column(n)
    /\ selfZoom = MaxZoom
    /\ GridUnused
    /\ currentTask = None
    /\ tasks = NoTasks
    /\ nextId = 1
    /\ features = Populated(extent, selfZoom)
    /\ \E v \in SUBSET Keys(features) :
         \E c \in { u \in SUBSET (Keys(features) \ v) : Cardinality(u) <= 1 } :
            disk = [valid |-> v, corrupt |-> c, vrt |-> {}]
    /\ lastFinish = None
    /\ UrlConfigured(TemplateXYZ)
    /\ WidgetWithUrl(TemplateXYZ)

NextDownload ==
    \/ \E hasVrt \in BOOLEAN : downloadTiles(hasVrt)
    \/ \E id \in TaskIds : TaskStart(id)
    \/ \E id \in TaskIds : DownloadNext(id)
    \/ \E id \in TaskIds : \E response \in Responses : downloadImage(id, response)
    \/ \E id \in TaskIds : DownloadCheck(id)
    \/ \E id \in TaskIds : TaskFinished(id)

SpecDownload == InitDownload /\ [][NextDownload]_vars

-----------------------------------------------------------------------------
(* SpecPanel: the panel of a layer and its jobs *)

\* the texts typed in the URL line edit
PanelTemplates == {<<>>, TemplateXYZ}

\* what the probe of a typed URL meets: no answer, or an image
PanelResponses == {"urlerror", "image"}

\* the paths chosen in the directory widget
PanelDirs == {"", TilesDir, MissingDir}

\* on_clickedOk.update: the zoom of the combo box is set, the URL is checked
\* when it differs from format_url (checkUrl catches what the setter raises),
\* radio Download is enabled for a valid URL and directory, updateFeatures()
clickedOkUpdate(response) ==
    LET url      == leUrl
        differs  == frm_url = None \/ frm_url[1] # url
        o        == SetterOutcome(url, CenterX, CenterY, response)
        enabledUrl == IF differs THEN url # <<>> /\ o.did.raised = None ELSE TRUE
    IN  /\ selfZoom' = cbZoom
        /\ IF differs
           THEN /\ frm_url' = o.frm
                /\ getUrl' = o.get
                /\ lastSet' = Some(o.did)
           ELSE UNCHANGED urlVars
        /\ rbDownload' = (enabledUrl /\ isValidDir(wgtDir))
        /\ callUpdateFeatures
        /\ btnOk' = "CANCEL"
        /\ UNCHANGED <<extent, gen, yielded, previous, iterations, totalResult>>
        /\ UNCHANGED <<registerLayers, leUrl, wgtDir, cbZoom, rbUpdate, ckVrt,
                       btnRemoveFiles>>

\* on_clickedOk.download: without URL or without a valid directory the
\* button is reset and radio Update checked; else downloadTiles( name,
\* dirPath, hasVrt ), which ends at once on an empty feature store
clickedOkDownload ==
    /\ UNCHANGED <<gridVars, urlVars>>
    /\ UNCHANGED <<registerLayers, leUrl, wgtDir, cbZoom, ckVrt, btnRemoveFiles>>
    /\ IF frm_url = None
       THEN /\ btnOk' = "OK"
            /\ rbUpdate' = TRUE
            /\ UNCHANGED <<layerVars, rbDownload>>
       ELSE IF ~isValidDir(wgtDir)
       THEN /\ rbDownload' = FALSE
            /\ btnOk' = "OK"
            /\ rbUpdate' = TRUE
            /\ UNCHANGED layerVars
       ELSE /\ btnOk' = "CANCEL"
            /\ UNCHANGED <<rbUpdate, rbDownload>>
            /\ IF ~hasCurrentTask(currentTask) /\ ~hasFirstFeature(features)
               THEN UNCHANGED layerVars
               ELSE callDownloadTiles(ckVrt)

\* LayerTilesMapCanvasWidget.on_clickedOk
on_clickedOk ==
    IF rbUpdate
    THEN \E response \in PanelResponses : clickedOkUpdate(response)
    ELSE clickedOkDownload

\* LayerTilesMapCanvasWidget.on_clickedRemoved
on_clickedRemoved ==
    /\ UNCHANGED <<gridVars, urlVars>>
    /\ UNCHANGED <<registerLayers, leUrl, wgtDir, cbZoom, rbUpdate, rbDownload,
                   ckVrt, btnOk>>
    /\ IF ~isValidDir(wgtDir)
       THEN UNCHANGED <<layerVars, btnRemoveFiles>>
       ELSE /\ callRemoveImages
            /\ btnRemoveFiles' = CancelText

\* the user chooses dirPath in the directory widget, which emits fileChanged:
\* LayerTilesMapCanvasWidget.on_fileChanged( dirPath )
on_fileChanged(dirPath) ==
    /\ wgtDir # dirPath
    /\ wgtDir' = dirPath
    /\ rbDownload' = isValidDir(dirPath)
    /\ IF isValidDir(dirPath) THEN callGetTotalImages ELSE UNCHANGED layerVars
    /\ UNCHANGED <<gridVars, urlVars>>
    /\ UNCHANGED <<registerLayers, leUrl, cbZoom, rbUpdate, ckVrt, btnOk,
                   btnRemoveFiles>>

\* the user types text in the URL line edit
EditUrl(text) ==
    /\ leUrl # text
    /\ leUrl' = text
    /\ UNCHANGED <<gridVars, layerVars, urlVars>>
    /\ UNCHANGED <<registerLayers, wgtDir, cbZoom, rbUpdate, rbDownload, ckVrt,
                   btnOk, btnRemoveFiles>>

\* the user checks the other radio button (Download when it is enabled)
SelectRadio ==
    /\ rbUpdate => rbDownload
    /\ rbUpdate' = ~rbUpdate
    /\ UNCHANGED <<gridVars, layerVars, urlVars>>
    /\ UNCHANGED <<registerLayers, leUrl, wgtDir, cbZoom, rbDownload, ckVrt,
                   btnOk, btnRemoveFiles>>

\* LayerTilesMapCanvasWidget.__init__ for the persisted properties of the
\* layer: a persisted URL was set with success; a persisted valid directory
\* is shown and counted by a first getTotalImages, whose return value (None)
\* is the number put on the remove button.
InitPanel ==
    /\ extent = Column(1)
    /\ selfZoom = MaxZoom
    /\ GridUnused
    /\ features = <<>>
    /\ lastFinish = None
    /\ disk = [valid |-> Keys(Populated(extent, selfZoom)), corrupt |-> {},
               vrt |-> {}]
    /\ \E url \in {None, Some(TemplateXYZ)} :
       \E dir \in {None, Some(TilesDir)} :
          /\ registerLayers = [url |-> url, dir |-> dir]
          /\ frm_url = url
          /\ getUrl = IF url = None THEN None ELSE NewGetUrl(url[1])
          /\ lastSet = None
          /\ leUrl = IF url = None THEN <<>> ELSE url[1]
          /\ IF dir # None /\ isValidDir(dir[1])
             THEN /\ wgtDir = dir[1]
                  /\ currentTask = Some(1)
                  /\ tasks = [i \in {1} |-> NewTask("count_images", FALSE, None, None)]
                  /\ nextId = 2
                  /\ btnRemoveFiles = RemoveText(None)
                  /\ rbDownload = (url # None)
             ELSE /\ wgtDir = ""
                  /\ currentTask = None
                  /\ tasks = NoTasks
                  /\ nextId = 1
                  /\ btnRemoveFiles = RemoveText(Some(0))
                  /\ rbDownload = FALSE
    /\ cbZoom = selfZoom
    /\ rbUpdate = TRUE
    /\ ckVrt = FALSE
    /\ btnOk = "OK"

NextPanel ==
    \/ on_clickedOk
    \/ on_clickedRemoved
    \/ \E dirPath \in PanelDirs : on_fileChanged(dirPath)
    \/ \E text \in PanelTemplates : EditUrl(text)
    \/ SelectRadio
    \/ \E id \in TaskIds : TaskStart(id)
    \/ \E id \in TaskIds : UpdateStep(id)
    \/ \E id \in TaskIds : DownloadNext(id)
    \/ \E id \in TaskIds : \E response \in Responses : downloadImage(id, response)
    \/ \E id \in TaskIds : DownloadCheck(id)
    \/ \E id \in TaskIds : \E listed \in BOOLEAN : CountRun(id, listed)
    \/ \E id \in TaskIds : \E listed \in BOOLEAN : RemoveList(id, listed)
    \/ \E id \in TaskIds : \E removed \in BOOLEAN : RemoveStep(id, removed)
    \/ \E id \in TaskIds : TaskFinished(id)

SpecPanel == InitPanel /\ [][NextPanel]_vars

-----------------------------------------------------------------------------
(* SpecZoom: populate and download jobs while the zoom of the layer changes *)

\* the zooms the canvas and the combo box take
Zooms == {MaxZoom - 1, MaxZoom}

\* LayerTilesMapCanvas.on_scaleChanged: the canvas is at another zoom, with
\* the tile extent e; self._zoom is set and changeZoom emitted, whose slot
\* on_changeZoom selects the zoom in the combo box
on_scaleChanged(zoom, e) ==
    /\ selfZoom # zoom
    /\ selfZoom' = zoom
    /\ extent' = e
    /\ cbZoom' = zoom
    /\ UNCHANGED <<gen, yielded, previous, iterations, totalResult>>
    /\ UNCHANGED <<layerVars, urlVars>>
    /\ UNCHANGED <<registerLayers, leUrl, wgtDir, rbUpdate, rbDownload, ckVrt,
                   btnOk, btnRemoveFiles>>

\* the user picks a zoom in the combo box:
\* LayerTilesMapCanvasWidget.on_currentTextChanged( text ) sets ltmc.zoom;
\* e is the tile extent of the canvas at that zoom
on_currentTextChanged(zoom, e) ==
    /\ cbZoom # zoom
    /\ cbZoom' = zoom
    /\ selfZoom' = zoom
    /\ extent' = e
    /\ UNCHANGED <<gen, yielded, previous, iterations, totalResult>>
    /\ UNCHANGED <<layerVars, urlVars>>
    /\ UNCHANGED <<registerLayers, leUrl, wgtDir, rbUpdate, rbDownload, ckVrt,
                   btnOk, btnRemoveFiles>>

\* the layer after construction, over an empty directory
InitZoom ==
    /\ extent \in LayerExtents
    /\ selfZoom \in Zooms
    /\ GridUnused
    /\ currentTask = None
    /\ tasks = NoTasks
    /\ nextId = 1
    /\ features = <<>>
    /\ disk = [valid |-> {}, corrupt |-> {}, vrt |-> {}]
    /\ lastFinish = None
    /\ UrlConfigured(TemplateXYZ)
    /\ WidgetWithUrl(TemplateXYZ)

NextZoom ==
    \/ updateFeatures
    \/ \E hasVrt \in BOOLEAN : downloadTiles(hasVrt)
    \/ \E zoom \in Zooms : \E e \in LayerExtents : on_scaleChanged(zoom, e)
    \/ \E zoom \in Zooms : \E e \in LayerExtents : on_currentTextChanged(zoom, e)
    \/ \E id \in TaskIds : TaskStart(id)
    \/ \E id \in TaskIds : UpdateStep(id)
    \/ \E id \in TaskIds : DownloadNext(id)
    \/ \E id \in TaskIds : \E response \in Responses : downloadImage(id, response)
    \/ \E id \in TaskIds : DownloadCheck(id)
    \/ \E id \in TaskIds : TaskFinished(id)

SpecZoom == InitZoom /\ [][NextZoom]_vars

-----------------------------------------------------------------------------
(* Properties of the layer's jobs *)

\* the last completion callback was the one of a download job
DownloadFinished == lastFinish # None /\ lastFinish[1].kind = "download"

\* ... whose run() had started
DownloadRan == DownloadFinished /\ lastFinish[1].task.pc # "start"

\* the terminal dict of the last completion callback, when one was emitted
Terminal == lastFinish[1].signal[1]

ResultsOf(t, tags) ==
    { i \in 1 .. Len(t.results) : t.results[i].result \in tags }

\* a downloadTiles request made while a task holds the slot
DownloadWhileActive ==
    /\ currentTask # None
    /\ \E hasVrt \in BOOLEAN : downloadTiles(hasVrt)

\* C1: at most one job is active per layer at any time, and a downloadTiles
\* request made while a job is active (_currentTask is set) calls cancel on
\* the active job and returns: no task is created or submitted, the slot still
\* names the active job, whose flag is set unless its run() had ended.
C1_OneActiveJob ==
    /\ [](/\ Cardinality(Alive) <= 1
          /\ \A id \in Alive : currentTask = Some(id))
    /\ [][DownloadWhileActive =>
            /\ nextId' = nextId
            /\ DOMAIN tasks' = DOMAIN tasks
            /\ currentTask' = currentTask
            /\ tasks'[currentTask[1]].canceledBy # None
            /\ tasks[currentTask[1]].status \in {"queued", "running"} =>
                  isCanceled(tasks'[currentTask[1]])]_vars

C1_Witness ==
    \E id \in Alive :
        /\ tasks[id].canceledBy = Some("download")
        /\ tasks[id].status = "running"
        /\ isCanceled(tasks[id])
        /\ currentTask = Some(id)
        /\ Alive = {id}
        /\ nextId = id + 1

\* C2: every batch operation that was requested and started ends with exactly
\* one terminal finishProcess notification carrying 'canceled' and 'total',
\* whether the job completes, is canceled, or its function raised.
C2_OneTerminalNotification ==
    (lastFinish # None /\ lastFinish[1].task.pc # "start") =>
        /\ Len(lastFinish[1].signal) = 1
        /\ Terminal.canceled \in BOOLEAN
        /\ Terminal.total # None

\* C3 as claimed: cancellation requested (of a running job) after k of the n
\* requests have completed gives canceled == true and total <= k.
C3_TotalAtMostDoneAtCancel ==
    (DownloadRan /\ lastFinish[1].task.atCancel # None
                 /\ lastFinish[1].task.atCancel[1].status = "running") =>
        /\ Terminal.canceled = TRUE
        /\ Terminal.total[1] <= lastFinish[1].task.atCancel[1].done

\* once run() has ended, nothing more is examined or fetched
StoppedStaysStopped(id) ==
    (id \in Alive /\ tasks[id].kind = "download"
                  /\ tasks[id].status \in {"complete", "terminated"}
                  /\ id \in DOMAIN tasks') =>
        /\ tasks'[id].countFeats = tasks[id].countFeats
        /\ tasks'[id].fetches = tasks[id].fetches
        /\ tasks'[id].results = tasks[id].results
        /\ tasks'[id].status = tasks[id].status

\* the check after a request, with the flag set, ends run()
CheckStops(id) ==
    (id \in Alive /\ tasks[id].kind = "download" /\ tasks[id].pc = "check"
                  /\ isCanceled(tasks[id])
                  /\ id \in DOMAIN tasks' /\ tasks'[id].pc # "check") =>
        /\ tasks'[id].status = "terminated"
        /\ tasks'[id].countFeats = tasks[id].countFeats
        /\ tasks'[id].fetches = tasks[id].fetches

\* C3, amended: cancellation requested while the job runs, after k of the n
\* requests have completed, gives canceled == true and total <= k + 1 (the
\* request in flight, or the one begun before the flag is next looked at, still
\* completes and is counted); when the flag is seen set after a request, run()
\* ends and no further request is examined or fetched.
C3_CancelBoundsTotal ==
    /\ []((DownloadRan /\ lastFinish[1].task.atCancel # None
                       /\ lastFinish[1].task.atCancel[1].status = "running") =>
            /\ Terminal.canceled = TRUE
            /\ Terminal.total[1] <= lastFinish[1].task.atCancel[1].done + 1
            /\ Terminal.total[1] <= Len(lastFinish[1].task.results))
    /\ [][\A id \in TaskIds : CheckStops(id) /\ StoppedStaysStopped(id)]_vars

C3_Witness ==
    /\ DownloadRan
    /\ lastFinish[1].task.atCancel # None
    /\ lastFinish[1].task.atCancel[1].status = "running"
    /\ lastFinish[1].task.atCancel[1].done = 1
    /\ lastFinish[1].task.observed # None
    /\ Terminal.canceled = TRUE
    /\ Terminal.total = Some(2)
    /\ Len(lastFinish[1].task.results) < lastFinish[1].task.totalFeats[1]

\* the job found the local file of every requested tile when it started
AllPresent == DownloadRan /\ Keys(features) \subseteq lastFinish[1].task.present

\* C4 as claimed: a download job run against a directory that already holds
\* the local file of every requested tile issues no network fetch, treats
\* every tile as Cached and reports total == 0.
C4_AllCached ==
    AllPresent =>
        /\ lastFinish[1].task.fetches = 0
        /\ \A i \in 1 .. Len(lastFinish[1].task.results) :
              lastFinish[1].task.results[i].result = "Cached"
        /\ Terminal.total = Some(0)

\* C4, amended: such a job issues no network fetch, writes no file, reports
\* total == 0, and treats every tile it examines as Cached when its local
\* file opens as an image; a local file that does not open is reported Failed.
C4_AllCachedOrUnreadable ==
    AllPresent =>
        /\ lastFinish[1].task.fetches = 0
        /\ \A i \in 1 .. Len(lastFinish[1].task.results) :
              lastFinish[1].task.results[i].result =
                 IF lastFinish[1].task.results[i].key \in disk.corrupt
                 THEN "Failed" ELSE "Cached"
        /\ Terminal.total = Some(0)
        /\ TifFiles \cap Keys(features) = lastFinish[1].task.present

C4_Witness ==
    /\ AllPresent
    /\ lastFinish[1].task.status = "complete"
    /\ Len(lastFinish[1].task.results) = 3
    /\ ResultsOf(lastFinish[1].task, {"Cached"}) = {1, 2, 3}
    /\ Terminal.total = Some(0)
    /\ Terminal.canceled = FALSE

\* C5: a tile failure (a network error, or bytes that do not open as an
\* image) never aborts a download job: without a cancellation request every
\* request of the batch is examined and the job ends with canceled == false.
C5_FailureNeverAborts ==
    (DownloadRan /\ lastFinish[1].task.canceledBy = None) =>
        /\ lastFinish[1].task.countFeats = lastFinish[1].task.totalFeats
        /\ Len(lastFinish[1].task.results) = lastFinish[1].task.totalFeats[1]
        /\ Terminal.canceled = FALSE

\* the keys of a list, and a list without repetition
Range(seq) == { seq[i] : i \in 1 .. Len(seq) }

NoRepeat(seq) == \A i \in 1 .. Len(seq) : \A j \in 1 .. Len(seq) :
                    seq[i] = seq[j] => i = j

\* C6: when mosaic assembly is requested, the file list handed to the mosaic
\* build at completion is exactly the local files of the tiles whose result
\* in this job was Cached or Fetched, each once (none of a Failed tile); it
\* is built whenever there is such a file; 3 fetched + 1 failed gives a
\* mosaic of exactly 3 files and total == 3.
C6_MosaicFiles ==
    DownloadFinished =>
        LET t     == lastFinish[1].task
            good  == ResultsOf(t, {"Cached", "Fetched"})
        IN  /\ lastFinish[1].mosaic # None =>
                 /\ t.hasVrt
                 /\ NoRepeat(lastFinish[1].mosaic[1])
                 /\ Len(lastFinish[1].mosaic[1]) = Cardinality(good)
                 /\ Range(lastFinish[1].mosaic[1]) =
                       { t.results[i].key : i \in good }
            /\ (t.hasVrt /\ good # {}) => lastFinish[1].mosaic # None
            /\ (~t.hasVrt) => lastFinish[1].mosaic = None
            /\ (t.hasVrt /\ Cardinality(ResultsOf(t, {"Fetched"})) = 3
                         /\ Cardinality(ResultsOf(t, {"Failed"})) = 1
                         /\ Len(t.results) = 4) =>
                 /\ Len(lastFinish[1].mosaic[1]) = 3
                 /\ Terminal.total = Some(3)

C6_Witness ==
    /\ DownloadFinished
    /\ lastFinish[1].mosaic # None
    /\ Len(lastFinish[1].mosaic[1]) = 3
    /\ Len(lastFinish[1].task.results) = 4
    /\ Cardinality(ResultsOf(lastFinish[1].task, {"Fetched"})) = 3
    /\ Cardinality(ResultsOf(lastFinish[1].task, {"Failed"})) = 1
    /\ Terminal.total = Some(3)

\* the download jobs whose run() has set the counters
Counting == { id \in Alive : tasks[id].kind = "download" /\ tasks[id].countFeats # None }

\* 0 <= countDownload <= countFeats <= totalFeats
CountersInOrder ==
    \A id \in Counting :
        /\ 0 <= tasks[id].countDownload[1]
        /\ tasks[id].countDownload[1] <= tasks[id].countFeats[1]
        /\ tasks[id].countFeats[1] <= tasks[id].totalFeats[1]

\* every request begun has added one to countFeats, whatever its result, and
\* only the Fetched ones have added one to countDownload
CountersFollowResults ==
    \A id \in Counting :
        /\ tasks[id].countFeats[1] =
              Len(tasks[id].results) + (IF tasks[id].pc = "fetch" THEN 1 ELSE 0)
        /\ tasks[id].countDownload[1] =
              Cardinality(ResultsOf(tasks[id], {"Fetched"}))

\* the total of the terminal dict is the number of Fetched results of the job
TerminalTotalIsFetched ==
    DownloadFinished =>
        Terminal.total = Some(Cardinality(ResultsOf(lastFinish[1].task, {"Fetched"})))

\* C14: in every state of a download job 0 <= countDownload <= countFeats <=
\* totalFeats; a Failed and a Cached tile each add one to countFeats and
\* nothing to countDownload; and the total of the terminal notification is the
\* number of tiles whose result in the job was Fetched.
C14_Counters ==
    /\ CountersInOrder
    /\ CountersFollowResults
    /\ TerminalTotalIsFetched

\* the same for the jobs whose run() had started
C14_CountersOfStartedJobs ==
    /\ CountersInOrder
    /\ CountersFollowResults
    /\ DownloadRan =>
          Terminal.total = Some(Cardinality(ResultsOf(lastFinish[1].task, {"Fetched"})))

\* the download jobs that requested the mosaic, running or just finished
MosaicJobs ==
    { tasks[id] : id \in { i \in Alive : tasks[i].kind = "download" /\ tasks[i].hasVrt } }
    \cup (IF DownloadFinished /\ lastFinish[1].task.hasVrt
          THEN {lastFinish[1].task} ELSE {})

\* the dicts of the given kinds a job has emitted on the image channel
ImagesOf(t, kinds) == SelectSeq(t.images, LAMBDA m : m.kind \in kinds)

\* C15 as claimed: in a download job that requests the mosaic no Cached or
\* Fetched tile is emitted on the image channel, and the mosaic file is the
\* only thing emitted on it during the job.
C15_OnlyMosaicReported ==
    \A t \in MosaicJobs : \A i \in 1 .. Len(t.images) : t.images[i].kind = "mosaic"

\* the keys of the Failed results of a job, in order
FailedKeys(t) ==
    [i \in 1 .. Len(SelectSeq(t.results, LAMBDA r : r.result = "Failed")) |->
        SelectSeq(t.results, LAMBDA r : r.result = "Failed")[i].key]

\* C15, amended: in a download job that requests the mosaic no Cached or
\* Fetched tile is emitted on the image channel; the mosaic is the only file
\* emitted on it, at most once and after everything else; each Failed tile is
\* still emitted with its message, in the order of the requests.
C15_NoTileReportedForMosaic ==
    \A t \in MosaicJobs :
        /\ ImagesOf(t, {"tile"}) = <<>>
        /\ Len(ImagesOf(t, {"mosaic"})) <= 1
        /\ ImagesOf(t, {"mosaic"}) # <<>> => t.images[Len(t.images)].kind = "mosaic"
        /\ [i \in 1 .. Len(ImagesOf(t, {"message"})) |->
               ImagesOf(t, {"message"})[i].key] = FailedKeys(t)

C15_Witness ==
    /\ DownloadRan
    /\ lastFinish[1].task.hasVrt
    /\ ResultsOf(lastFinish[1].task, {"Fetched"}) # {}
    /\ ResultsOf(lastFinish[1].task, {"Cached"}) # {}
    /\ ResultsOf(lastFinish[1].task, {"Failed"}) # {}
    /\ lastFinish[1].mosaic # None
    /\ Len(lastFinish[1].task.images) = 2

\* the positions of the emits of the last finished job on a channel
EmitsOn(channel) ==
    { i \in 1 .. Len(lastFinish[1].emits) : lastFinish[1].emits[i].channel = channel }

\* C16: when a download job completes, normally or canceled, the mosaic is
\* built if and only if it was requested and at least one file was
\* accumulated; every dict of the job on the image channel (tile, message or
\* mosaic) is emitted before its one terminal dict, and none after: the
\* terminal dict is the last emit and the job is gone with it.
C16_MosaicThenTerminal ==
    /\ [](DownloadFinished =>
            /\ lastFinish[1].mosaic # None <=>
                  (lastFinish[1].task.hasVrt
                     /\ ResultsOf(lastFinish[1].task, {"Cached", "Fetched"}) # {})
            /\ lastFinish[1].mosaic # None <=>
                  ImagesOf(lastFinish[1].task, {"mosaic"}) # <<>>
            /\ Cardinality(EmitsOn("image")) = Len(lastFinish[1].task.images)
            /\ EmitsOn("finish") = {Len(lastFinish[1].emits)}
            /\ \A i \in EmitsOn("image") : i < Len(lastFinish[1].emits))
    /\ [][(lastFinish' # lastFinish /\ lastFinish' # None) =>
             lastFinish'[1].id \notin DOMAIN tasks']_vars

C16_Witness ==
    /\ DownloadRan
    /\ Terminal.canceled
    /\ lastFinish[1].mosaic # None
    /\ ImagesOf(lastFinish[1].task, {"message"}) # <<>>
    /\ Len(lastFinish[1].emits) = 3

\* a download job with a request in flight and the flag set
InFlightCanceled(id) ==
    /\ id \in Alive
    /\ tasks[id].kind = "download"
    /\ tasks[id].status = "running"
    /\ tasks[id].pc = "fetch"
    /\ isCanceled(tasks[id])

\* the step that ends that request collects its result: the file of a Fetched
\* tile is written and counted, the file of a Cached or Fetched tile is listed
\* for the mosaic, a Failed tile is reported
Collected(id) ==
    LET t    == tasks[id]
        u    == tasks'[id]
        r    == u.results[Len(u.results)]
    IN  /\ Len(u.results) = Len(t.results) + 1
        /\ r.result = "Fetched" =>
              /\ r.key \in disk'.valid
              /\ u.countDownload = Some(t.countDownload[1] + 1)
        /\ (r.result \in {"Cached", "Fetched"} /\ t.hasVrt) =>
              u.filepathImagesVrt = Append(t.filepathImagesVrt, r.key)
        /\ r.result = "Failed" =>
              u.images = Append(t.images, [kind |-> "message", key |-> r.key])

\* the last finished download job was asked to cancel with a request in flight
CanceledInFlight ==
    /\ DownloadRan
    /\ lastFinish[1].task.atCancel # None
    /\ lastFinish[1].task.atCancel[1].inFlight

\* C17: a request in flight when cancellation is asked is not interrupted: it
\* runs to its end and its result is collected (the file is written, counted in
\* total and, for a mosaic, listed and merged); only then the job stops, with
\* no further request, and reports canceled = true.
C17_InFlightFetchCompletes ==
    /\ [][\A id \in TaskIds :
            (InFlightCanceled(id) /\ id \in DOMAIN tasks'
                                  /\ tasks'[id].pc # "fetch") => Collected(id)]_vars
    /\ [](CanceledInFlight =>
            LET t == lastFinish[1].task
                k == t.atCancel[1].done
            IN  /\ Terminal.canceled = TRUE
                /\ Len(t.results) = k + 1
                /\ t.results[k + 1].result = "Fetched" =>
                      /\ t.results[k + 1].key \in disk.valid
                      /\ Terminal.total[1] =
                            Cardinality(ResultsOf(t, {"Fetched"}))
                /\ (t.results[k + 1].result \in {"Cached", "Fetched"} /\ t.hasVrt) =>
                      /\ lastFinish[1].mosaic # None
                      /\ t.results[k + 1].key \in Range(lastFinish[1].mosaic[1]))

C17_Witness ==
    /\ CanceledInFlight
    /\ lastFinish[1].task.atCancel[1].done = 1
    /\ lastFinish[1].task.results[2].result = "Fetched"
    /\ lastFinish[1].task.hasVrt
    /\ Terminal.total = Some(2)
    /\ Len(lastFinish[1].mosaic[1]) = 2
    /\ lastFinish[1].task.totalFeats[1] > 2

\* the order of two progress values
AtMost(p, q) == p.num * q.den <= q.num * p.den

\* a download job that is running before and after a step
Running(id) ==
    /\ id \in Alive
    /\ tasks[id].kind = "download"
    /\ tasks[id].status = "running"
    /\ id \in DOMAIN tasks'

\* the counter of examined requests is the number of requests begun
ExaminedOncePerRequest ==
    \A id \in Counting :
        tasks[id].countFeats[1] =
            Len(tasks[id].results) + (IF tasks[id].pc = "fetch" THEN 1 ELSE 0)

\* the reported progress is countFeats / totalFeats * 100 and at most 100
ProgressOfExamined ==
    \A id \in Counting :
        /\ AtMost(tasks[id].progress,
                  Percent(tasks[id].countFeats[1], tasks[id].totalFeats[1]))
        /\ AtMost(Percent(tasks[id].countFeats[1], tasks[id].totalFeats[1]),
                  tasks[id].progress)
        /\ AtMost(tasks[id].progress, Percent(1, 1))

\* the progress never goes down
ProgressNeverDecreases(id) ==
    Running(id) => AtMost(tasks[id].progress, tasks'[id].progress)

\* a job not asked to cancel whose requests have all completed is at 100
ProgressFullAtEnd ==
    (DownloadRan /\ lastFinish[1].task.canceledBy = None
                 /\ Len(lastFinish[1].task.results) = lastFinish[1].task.totalFeats[1]) =>
        AtMost(Percent(1, 1), lastFinish[1].task.progress)

\* a progress report is made by the step that completes a request, and tells
\* the share of the requests completed
ReportedAfterRequest(id) ==
    (Running(id) /\ tasks'[id].progress # tasks[id].progress) =>
        /\ Len(tasks'[id].results) = Len(tasks[id].results) + 1
        /\ tasks'[id].progress =
              Percent(Len(tasks'[id].results), tasks[id].totalFeats[1])

\* C18: in a download job the examined counter goes up exactly once per
\* request whatever its outcome, and the progress examined / total * 100 is
\* reported after every request completes; the progress never decreases, never
\* exceeds 100 and is 100 once all the requests of a job that was not canceled
\* have completed.
C18_ProgressAfterEachRequest ==
    /\ [](ExaminedOncePerRequest /\ ProgressOfExamined /\ ProgressFullAtEnd)
    /\ [][\A id \in TaskIds : ProgressNeverDecreases(id)]_vars
    /\ [][\A id \in TaskIds : ReportedAfterRequest(id)]_vars

\* C18 without the moment of the report
C18_ProgressOfRequestsBegun ==
    /\ [](ExaminedOncePerRequest /\ ProgressOfExamined /\ ProgressFullAtEnd)
    /\ [][\A id \in TaskIds : ProgressNeverDecreases(id)]_vars

\* the requests of a job that have begun and not returned
InFlight(t) == t.countFeats[1] - Len(t.results)

\* the size of the pool the claim names
Workers(requestCount, cpuCount) ==
    IF requestCount > cpuCount THEN cpuCount ELSE (requestCount \div 2) + 1

\* C19: at every moment of a download job the number of requests in flight is
\* at most workers, with workers = cpuCount if requestCount > cpuCount else
\* floor(requestCount / 2) + 1, for any machine (cpuCount >= 1).
C19_BoundedInFlight ==
    \A id \in Counting : \A cpuCount \in 1 .. MaxCpu :
        /\ 0 <= InFlight(tasks[id])
        /\ InFlight(tasks[id]) <= Workers(tasks[id].totalFeats[1], cpuCount)

C19_Witness ==
    \E id \in Counting :
        /\ tasks[id].pc = "fetch"
        /\ InFlight(tasks[id]) = 1
        /\ tasks[id].totalFeats[1] = 3
        /\ Len(tasks[id].results) = 2
        /\ Workers(tasks[id].totalFeats[1], 1) = 1

\* the request in progress of a running download job finds its local file
ExaminesLocalFile(id) ==
    /\ id \in Alive
    /\ tasks[id].kind = "download"
    /\ tasks[id].status = "running"
    /\ tasks[id].pc = "fetch"
    /\ FileKey(features[tasks[id].cursor]) \in disk.valid \cup disk.corrupt
    /\ id \in DOMAIN tasks'
    /\ tasks'[id].pc # "fetch"

\* C20: for a request whose local file exists when it is examined no network
\* request is made and the file is not written or replaced; the result is
\* Cached when the file opens as an image and Failed when it does not, and in
\* both cases the files and countDownload are as before.
C20_LocalFileNotFetched ==
    [][\A id \in TaskIds :
         ExaminesLocalFile(id) =>
            LET t   == tasks[id]
                u   == tasks'[id]
                key == FileKey(features[t.cursor])
            IN  /\ u.fetches = t.fetches
                /\ disk' = disk
                /\ u.countDownload = t.countDownload
                /\ Len(u.results) = Len(t.results) + 1
                /\ u.results[Len(u.results)].key = key
                /\ key \in disk.valid => u.results[Len(u.results)].result = "Cached"
                /\ key \in disk.corrupt => u.results[Len(u.results)].result = "Failed"]_vars

C20_Witness ==
    \E id \in Counting :
        /\ Len(tasks[id].results) = 2
        /\ tasks[id].results[1].result = "Failed"
        /\ tasks[id].results[1].key \in disk.corrupt
        /\ tasks[id].results[2].result = "Cached"
        /\ tasks[id].results[2].key \in tasks[id].present
        /\ tasks[id].fetches = 0
        /\ tasks[id].countDownload = Some(0)

\* the last completion callback was the one of a populate job that emitted
\* its terminal dict
UpdateNotified ==
    /\ lastFinish # None
    /\ lastFinish[1].kind = "update"
    /\ lastFinish[1].signal # <<>>

\* a populate job that is running with its flag set takes a step of run()
UpdateStepsCanceled(id) ==
    /\ id \in Alive
    /\ tasks[id].kind = "update"
    /\ tasks[id].status = "running"
    /\ tasks[id].shouldTerminate
    /\ id \in DOMAIN tasks'
    /\ tasks'[id].status # "running"

UpdateAppends(id) ==
    /\ id \in Alive
    /\ tasks[id].kind = "update"
    /\ id \in DOMAIN tasks'
    /\ Len(features') = Len(features) + 1

\* C23: in a populate job the progress given to setProgress after a record
\* is appended is count / total * 100, count being the number of records
\* appended so far and total the number of tiles of the job; so a populate
\* job that completes normally has reported 100, and never more than 100.
C23_PopulateProgress ==
    /\ [][\A id \in TaskIds :
            UpdateAppends(id) =>
               /\ AtMost(tasks'[id].progress,
                         Percent(Len(features'), tasks[id].totalTiles[1]))
               /\ AtMost(Percent(Len(features'), tasks[id].totalTiles[1]),
                         tasks'[id].progress)]_vars
    /\ [](\A id \in Alive : AtMost(tasks[id].progress, Percent(1, 1)))
    /\ []((UpdateNotified /\ ~Terminal.canceled) =>
             AtMost(Percent(1, 1), lastFinish[1].task.progress))

\* what the code reports instead: the share of the records appended before
\* the one just appended, so the last report of a complete job is below 100
C23_ProgressOfEarlierRecords ==
    /\ [][\A id \in TaskIds :
            UpdateAppends(id) =>
               tasks'[id].progress = Percent(Len(features), tasks[id].totalTiles[1])]_vars
    /\ []((UpdateNotified /\ ~Terminal.canceled) =>
             ~AtMost(Percent(1, 1), lastFinish[1].task.progress))

\* an updateFeatures request made while a task holds the slot
UpdateWhileActive ==
    /\ currentTask # None
    /\ updateFeatures

\* C24: population truncates, then appends: after a populate job that
\* completes normally the store holds exactly one record {x, y, z, q, rect}
\* per tile of the grid, in the order of the walk, and none of an earlier
\* population; a populate request that becomes a cancel of the active job
\* neither truncates nor appends.
C24_TruncateThenAppend ==
    /\ []((UpdateNotified /\ ~Terminal.canceled) =>
            /\ features = Populated(extent, lastFinish[1].task.zoom[1])
            /\ Len(features) = total(extent)
            /\ NoRepeat(features))
    /\ [][UpdateWhileActive =>
            /\ features' = features
            /\ nextId' = nextId
            /\ DOMAIN tasks' = DOMAIN tasks]_vars

C24_Witness ==
    /\ UpdateNotified
    /\ ~Terminal.canceled
    /\ lastFinish[1].id = 2
    /\ Len(features) = 2
    /\ features[1] = Tile(0, 0, MaxZoom)

\* one of the four requests
Request ==
    \/ updateFeatures
    \/ \E hasVrt \in BOOLEAN : downloadTiles(hasVrt)
    \/ getTotalImages
    \/ removeImages

\* the terminal dict of a canceled job has been delivered
CanceledNotified ==
    /\ lastFinish # None
    /\ lastFinish[1].signal # <<>>
    /\ Terminal.canceled

NotifiedOf(kind) ==
    /\ lastFinish # None
    /\ lastFinish[1].kind = kind
    /\ lastFinish[1].signal # <<>>

\* a step of a remove job that has not raised
RemoveJobSteps(id) ==
    /\ id \in Alive
    /\ tasks[id].kind = "remove_images"
    /\ id \in DOMAIN tasks'
    /\ tasks'[id].exception = None

\* C26: the remove job reports as total exactly the number of files it
\* deleted, canceled or not, and after a remove job that ends with canceled =
\* false a count of the same directory reports total = 0 (the count job
\* reports the number of tif files of the directory).
C26_RemoveTotalIsDeleted ==
    /\ [][\A id \in TaskIds :
            RemoveJobSteps(id) =>
               tasks'[id].c_tiles - tasks[id].c_tiles =
                  Cardinality(ListDir) - Cardinality(ListDir')]_vars
    /\ [](NotifiedOf("remove_images") =>
            /\ Terminal.total = Some(lastFinish[1].task.c_tiles)
            /\ ~Terminal.canceled => TifFiles = {})
    /\ [](NotifiedOf("count_images") =>
            Terminal.total = Some(Cardinality(TifFiles)))

C26_Witness ==
    /\ NotifiedOf("remove_images")
    /\ ~Terminal.canceled
    /\ Terminal.total = Some(2)
    /\ TifFiles = {}

\* the job that holds the slot
ActiveJob == tasks[currentTask[1]]

\* C27: the four requests share the one slot: a request of any kind made
\* while a job of any kind holds the slot asks that job to stop and does
\* nothing else: no task is created, the slot keeps its job, and the store
\* and the directory are left as they are.
C27_RequestOnActiveJobOnlyCancels ==
    [][(Request /\ currentTask # None) =>
          /\ currentTask' = currentTask
          /\ nextId' = nextId
          /\ DOMAIN tasks' = DOMAIN tasks
          /\ features' = features
          /\ disk' = disk
          /\ \A id \in Alive \ {currentTask[1]} : tasks'[id] = tasks[id]
          /\ ActiveJob.status \in {"queued", "running"} =>
                ActiveJob'.shouldTerminate
          /\ ActiveJob'.canceledBy # None
          /\ ActiveJob'.kind = ActiveJob.kind
          /\ ActiveJob'.c_tiles = ActiveJob.c_tiles]_vars

\* a download job stopped by a remove request, with the files still there
C27_Witness ==
    /\ currentTask # None
    /\ ActiveJob.kind = "download"
    /\ ActiveJob.status = "running"
    /\ ActiveJob.canceledBy = Some("remove_images")
    /\ ActiveJob.shouldTerminate
    /\ ListDir # {}
    /\ nextId = currentTask[1] + 1

\* the download jobs whose run() was entered: the job that runs or has run,
\* and the job of the last completion callback
DownloadJobs ==
    { t \in { tasks[id] : id \in Alive }
              \cup (IF lastFinish # None THEN {lastFinish[1].task} ELSE {}) :
        t.kind = "download" /\ t.countFeats # None }

\* C28 as stated: no tile whose request ended Failed has its local file in
\* the directory, and a file that was not there before the job belongs to a
\* Fetched tile.
C28_FailedLeavesNoFile ==
    \A t \in DownloadJobs :
       /\ \A i \in ResultsOf(t, {"Failed"}) : t.results[i].key \notin TifFiles
       /\ \A key \in (TifFiles \cap Keys(features)) \ t.present :
             \E i \in ResultsOf(t, {"Fetched"}) : t.results[i].key = key

\* C28, amended: a request that ends Failed never creates the local file: a
\* file that was not there before the job belongs to a Fetched tile, the
\* file of a tile that had none and ended Failed is still absent, and the
\* requests a job sends are exactly those of the tiles without a local file,
\* so a later job fetches again a tile whose fetch failed.  (A tile that
\* failed on its unreadable local file keeps that file.)
C28_FailedFetchLeavesNoFile ==
    \A t \in DownloadJobs :
       /\ \A key \in (TifFiles \cap Keys(features)) \ t.present :
             \E i \in ResultsOf(t, {"Fetched"}) : t.results[i].key = key
       /\ \A i \in ResultsOf(t, {"Failed"}) :
             \/ t.results[i].key \in t.present
             \/ t.results[i].key \notin TifFiles
       /\ \A i \in ResultsOf(t, {"Cached"}) : t.results[i].key \in t.present
       /\ Cardinality({ i \in 1 .. Len(t.results) :
                           t.results[i].key \notin t.present }) = t.fetches

\* a second job with a tile fetched and a tile whose fetch failed
C28_Witness ==
    /\ lastFinish # None
    /\ lastFinish[1].kind = "download"
    /\ lastFinish[1].id = 2
    /\ \E i \in ResultsOf(lastFinish[1].task, {"Failed"}) :
          /\ lastFinish[1].task.results[i].key \notin lastFinish[1].task.present
          /\ lastFinish[1].task.results[i].key \notin TifFiles
    /\ ResultsOf(lastFinish[1].task, {"Fetched"}) # {}

-----------------------------------------------------------------------------
(* Properties of the panel *)

\* the notification a step delivers to on_finishProcess, if any
Notified ==
    /\ lastFinish' # lastFinish
    /\ lastFinish' # None
    /\ lastFinish'[1].signal # <<>>

\* C13: the persisted properties of the layer (URL template, tiles directory)
\* are written only by a successful update or download: a terminal
\* notification with canceled = true, or with an error, leaves them as they were.
C13_WrittenOnlyOnSuccess ==
    [][ ( /\ Notified
          /\ \/ lastFinish'[1].signal[1].canceled
             \/ lastFinish'[1].signal[1].error # None )
        => registerLayers' = registerLayers ]_vars

\* an OK click that reaches downloadTiles with no job in the slot and an
\* empty feature store
DownloadOnEmptyStore ==
    /\ on_clickedOk
    /\ ~rbUpdate
    /\ frm_url # None
    /\ isValidDir(wgtDir)
    /\ currentTask = None
    /\ features = <<>>

\* C29: a download requested with no job in the slot and an empty feature
\* store starts no job: the slot stays None, no task is created and no
\* completion callback runs for the request; no download task is ever
\* created over an empty store.
C29_DownloadOnEmptyStoreStartsNothing ==
    /\ [][DownloadOnEmptyStore =>
            /\ currentTask' = None
            /\ tasks' = tasks
            /\ nextId' = nextId
            /\ lastFinish' = lastFinish
            /\ features' = features
            /\ disk' = disk]_vars
    /\ [](\A id \in Alive :
            tasks[id].kind = "download" => tasks[id].totalFeats[1] >= 1)

\* the count job of the panel's construction has ended untouched, no other
\* task was created, and the OK button shows the click on Download
C29_Witness ==
    /\ currentTask = None
    /\ features = <<>>
    /\ nextId = 2
    /\ NotifiedOf("count_images")
    /\ lastFinish[1].id = 1
    /\ lastFinish[1].task.canceledBy = None
    /\ ~rbUpdate
    /\ btnOk = "CANCEL"

\* C30: the OK button shows 'CANCEL' only while a job holds the slot: with
\* the slot empty (the completion callback delivers the terminal dict as it
\* empties the slot) the button shows 'OK', whatever the order of the OK
\* clicks, remove clicks, directory changes and job ends.
C30_CancelOnlyWhileActive ==
    btnOk = "CANCEL" => currentTask # None

\* C31: once the terminal dict of a download, count_images or remove_images
\* job has been handled, the remove button shows a number, and the number is
\* the count of tif files in the tiles directory, also when the job was
\* canceled.
C31_ButtonShowsTifCount ==
    (\E kind \in {"download", "count_images", "remove_images"} : NotifiedOf(kind))
       => btnRemoveFiles = RemoveText(Some(Cardinality(TifFiles)))

-----------------------------------------------------------------------------
(* Properties of the feature store under zoom changes *)

\* the zooms of the records of the store
StoreZooms == { features[i].z : i \in 1 .. Len(features) }

\* C32: at every moment all records of the feature store carry the same zoom,
\* whatever the order of populate requests, cancellations, zoom picks and
\* scale changes; so the zoom a download job read from the first record is
\* the zoom of every record it downloads.
C32_StoreHasOneZoom ==
    /\ Cardinality(StoreZooms) <= 1
    /\ \A id \in Alive :
          tasks[id].kind = "download" => StoreZooms = {tasks[id].zoom[1]}

\* a download job over two records populated at a zoom the layer has left
C32_Witness ==
    /\ currentTask # None
    /\ ActiveJob.kind = "download"
    /\ ActiveJob.status = "running"
    /\ Len(features) = 2
    /\ StoreZooms = {MaxZoom - 1}
    /\ selfZoom = MaxZoom

=============================================================================
